---- MODULE Spec2Model ----
(***************************************************************************)
(* A model of the rpg_world_agent runtime: the per-turn step machine of    *)
(* RuntimeEngine (core/runtime.py) with the plugin hook dispatch           *)
(* (core/plugin_system.py), the map graph (core/map_engine.py), the event  *)
(* log (core/event_system.py) and the world-state listener                 *)
(* (core/world_state.py); and the content cache, rate limiter and          *)
(* read-through of core/lazy_loader.py.                                    *)
(*                                                                         *)
(* Spec       the turn loop of one session (initialize_player, step).      *)
(* SpecCache  the lazy loader under a clock (get_cached_or_generate).      *)
(* SpecBurst  a burst of read-throughs within one second.                  *)
(* SpecLru    the content cache on its own (ContentCache.get and set).     *)
(* SpecWorld  the world state: quests, crisis level, save and load.        *)
(* SpecMap    the map store: ingest_l2_graph, create_dynamic_sub_location. *)
(* SpecEvents the listeners of an event system (register, emit).           *)
(* SpecPlugins   the plugin host of two sessions (register, load, unload). *)
(* SpecCognition the player state and history of a session in its store,   *)
(*               with archive_session and load_session.                    *)
(* SpecContent   the context loader (load_content, the per-turn check).    *)
(* SpecTurns     a long session of command turns (the periodic save).      *)
(* SpecNpcs      the world simulator's ticks over the NPCs and regions.    *)
(* SpecLooks     sessions of moving and looking (the DISCOVERY event).     *)
(* SpecBlanks    sessions with empty and blank inputs.                     *)
(* SpecRecent    the recent-history read on the in-memory stores.          *)
(* SpecChain     linked events and get_related_events.                     *)
(* SpecSaves     repeated archive_session of one session (playtime).       *)
(* SpecSubs      create_dynamic_sub_location and the risk level it stores. *)
(* SpecSync      world events of the simulator with the state listening.   *)
(* SpecRacing    two callers inside get_cached_or_generate at once.        *)
(***************************************************************************)
EXTENDS Integers, Sequences, FiniteSets, TLC

VARIABLES
    \* ---- RuntimeEngine and the subsystems it owns --------------------
    turn_count,     \* RuntimeEngine._turn_count
    history,        \* rpg:history:<s>, the Cognition message list
    player_loc,     \* the "location" field of rpg:state:<s> (NoneV: unset)
    events,         \* the Event Log, in emission order
    nodes,          \* ids with an rpg:map:node:<id> key
    edges,          \* rpg:map:edges:<from>, field Travel:<to> -> route
    ws_regions,     \* WorldStateManager.regions (registered ids)
    ws_discovered,  \* the registered regions whose discovered flag is set
    ws_saves,       \* number of WorldStateManager.save() calls
    gen_cache,      \* ContextLoader._generator_cache (its keys)
    lifecycle,      \* Plugin._lifecycle of each registered plugin
    enabled,        \* PluginManager._enabled_plugins
    has_llm,        \* RuntimeEngine.llm_client is not None
    calls,          \* log: one record per step() call, in call order
    \* ---- LazyLoadingStrategy ----------------------------------------
    now,            \* time.time(), in milliseconds
    config,         \* LazyLoadingStrategy.config
    cache,          \* ContentCache._cache, in insertion order
    call_times,     \* RateLimiter._call_times
    stats,          \* LazyLoadingStrategy._stats
    ctx,            \* what LoadContext.compute_hash reads
    reqs,           \* log: one record per call into the lazy loader
    \* ---- WorldStateManager -----------------------------------------
    quests,         \* WorldStateManager.quests: id -> status (NoneV: absent)
    crisis_level,   \* WorldStateManager.crisis_level, its enum value
    ws_store,       \* rpg:world_state:<s>:* as save() left it
    ws_last,        \* log: the last call into the world state
    \* ---- MapTopologyEngine -----------------------------------------
    map_pc,         \* where create_dynamic_sub_location stands between writes
    map_faulted,    \* a store write has failed or a call was cut short
    map_last,       \* log: the last call into the map engine
    \* ---- EventSystem -----------------------------------------------
    listeners,      \* EventSystem._listeners
    emit_last,      \* log: the last emit
    \* ---- PluginManager and the engines that refer to it -------------
    pm_instance,    \* PluginManager._instance (0: None, else a manager)
    managers,       \* the PluginManager objects constructed so far
    engine_pm,      \* RuntimeEngine.plugin_manager of each session (0: no engine)
    pm_last,        \* log: the last call into a plugin manager
    \* ---- CognitionSystem and its two stores ------------------------
    store_kind,     \* DBClient._redis_instance: NoneV, "redis" or "mock"
    cog_history,    \* rpg:history:<s>, each element the JSON text of a message
    cog_state,      \* rpg:state:<s>, field -> stored value
    cog_meta,       \* rpg:meta:<s>, the JSON text of the metadata
    blob,           \* saves/<s>.json in the blob store
    cog_last,       \* log: the last call into the cognition system
    \* ---- ContextLoader ---------------------------------------------
    contents,       \* ContextLoader._loadable_content, with a count of loads
    held_loaded,    \* loaded_content of a LoadContext the caller keeps
    cl_last,        \* log: the last call into the context loader
    \* ---- WorldSimulator and the NPCs of the world state -------------
    npcs,           \* WorldStateManager.npcs, in the order of the dict
    sim_config,     \* WorldSimulator.config, NoSimulator before one is made
    sim_ticks,      \* WorldSimulator._tick_count
    sim_last,       \* log: the last call that touched NPCs or regions
    \* ---- EventSystem: the stored events and their links -------------
    chain,          \* chain[i]: related_events of the i-th event emitted
    rel_last,       \* log: the last get_related_events call
    \* ---- MapTopologyEngine: the risk of the nodes it made ------------
    node_risk,      \* <<node id, risk_level>> of every dynamic node stored
    risk_last,      \* log: the last create_dynamic_sub_location call
    \* ---- Two callers of one LazyLoadingStrategy ---------------------
    callers,        \* where each caller stands inside get_cached_or_generate
    gen_at          \* log: the instants at which a generator was invoked

rtvars == <<turn_count, history, player_loc, events, nodes, edges, ws_regions,
            ws_discovered, ws_saves, gen_cache, lifecycle, enabled, has_llm, calls>>
llvars == <<now, config, cache, call_times, stats, ctx, reqs>>
wsvars == <<quests, crisis_level, ws_store, ws_last>>
mapvars == <<map_pc, map_faulted, map_last>>
evvars == <<listeners, emit_last>>
pmvars == <<pm_instance, managers, engine_pm, pm_last>>
\* The subsystems that are modelled on their own, next to the turn loop.
cogvars == <<store_kind, cog_history, cog_state, cog_meta, blob, cog_last>>
clvars == <<contents, held_loaded, cl_last>>
simvars == <<npcs, sim_config, sim_ticks, sim_last>>
relvars == <<chain, rel_last>>
riskvars == <<node_risk, risk_last>>
racevars == <<callers, gen_at>>
othervars == <<pmvars, cogvars, clvars, simvars, relvars, riskvars, racevars>>
\* The runtime's variables other than the map store.
sessvars == <<turn_count, history, player_loc, events, ws_regions, ws_discovered,
              ws_saves, gen_cache, lifecycle, enabled, has_llm, calls>>
vars == <<turn_count, history, player_loc, events, nodes, edges, ws_regions,
          ws_discovered, ws_saves, gen_cache, lifecycle, enabled, has_llm, calls,
          now, config, cache, call_times, stats, ctx, reqs,
          quests, crisis_level, ws_store, ws_last,
          map_pc, map_faulted, map_last, listeners, emit_last,
          pm_instance, managers, engine_pm, pm_last,
          store_kind, cog_history, cog_state, cog_meta, blob, cog_last,
          contents, held_loaded, cl_last,
          npcs, sim_config, sim_ticks, sim_last,
          chain, rel_last, node_risk, risk_last, callers, gen_at>>

(***************************************************************************)
(* Bounds of the model.                                                    *)
(***************************************************************************)
\* The longest Cognition history a run may build (two messages per full turn).
MaxHistory == 4
MaxInits == 1
MaxDyn == 1

\* RuntimeEngine.step saves the world state every SaveEvery turns.
SaveEvery == 10

\* Python's None, and a raised exception as a callback's outcome.
NoneV == "<None>"
RaiseV == "<raise>"

(***************************************************************************)
(* The world: the L2 regions of the bootstrap and the ids uuid4 may hand   *)
(* to dynamic sub-locations.                                               *)
(***************************************************************************)
Regions == {"tavern", "forest", "cave"}
DynPool == <<"dyn1", "dyn2", "dyn3">>
DynIds == {DynPool[i] : i \in 1..Len(DynPool)}
AllIds == Regions \cup DynIds
NoEdge == "<no edge>"
Keyword == "cellar"

\* The graph ingest_l2_graph leaves for tavern <-> forest <-> cave: every
\* edge is written in both directions with the same route concept.
BootEdges ==
    [p \in AllIds \X AllIds |->
        IF p \in {<<"tavern", "forest">>, <<"forest", "tavern">>} THEN "Muddy Path"
        ELSE IF p \in {<<"forest", "cave">>, <<"cave", "forest">>} THEN "Rocky Trail"
        ELSE NoEdge]

(***************************************************************************)
(* Plugins.  A plugin is a record of optional callbacks; what a callback   *)
(* returns on one invocation is an input of the turn.                      *)
(***************************************************************************)
Plugins == {"magic", "guard"}
\* Plugin.register_command: the command names each plugin registered.
PluginCommands(p) == IF p = "magic" THEN {"cast"} ELSE {}
\* What a hook may return besides None: a string (the empty one included),
\* or an object that is not a string, written here by its repr in brackets.
BeforeVals == {"", "<True>"}
AfterVals == {"rewritten"}

\* The members of the PluginHookType enum.
PluginHookType ==
    {"ON_PLAYER_CREATED", "ON_PLAYER_MOVED", "ON_PLAYER_STATE_CHANGED",
     "ON_TURN_START", "ON_TURN_END", "ON_BEFORE_ACTION", "ON_AFTER_ACTION",
     "ON_WORLD_GENERATED", "ON_LOCATION_ENTERED", "ON_LOCATION_EXITED",
     "ON_NARRATION_GENERATED", "ON_SAVE", "ON_LOAD"}

\* The outcomes of one hook on every entry of the enabled list.
HookOuts(vals) == [1..Len(enabled) -> vals \cup {NoneV, RaiseV}]

\* Positions of the enabled list whose plugin is registered and LOADED.
Callable(i) == enabled[i] \in DOMAIN lifecycle /\ lifecycle[enabled[i]] = "loaded"

RECURSIVE FirstFrom(_, _)
FirstFrom(outs, i) ==
    IF i > Len(enabled) THEN NoneV
    ELSE IF Callable(i) /\ outs[i] \notin {NoneV, RaiseV} THEN outs[i]
    ELSE FirstFrom(outs, i + 1)

\* PluginManager.invoke_hook_first: the first non-None return value, in
\* enable order; a raising callback is logged and skipped.
InvokeHookFirst(outs) == FirstFrom(outs, 1)

RECURSIVE HandlerFrom(_, _)
HandlerFrom(name, i) ==
    IF i > Len(enabled) THEN NoneV
    ELSE IF enabled[i] \in DOMAIN lifecycle /\ name \in PluginCommands(enabled[i])
         THEN enabled[i]
    ELSE HandlerFrom(name, i + 1)

\* PluginManager.get_command_handler: the first enabled plugin that
\* registered the command (its lifecycle is not looked at).
GetCommandHandler(name) == HandlerFrom(name, 1)

\* str(x) of a hook's return value: a string is itself, the object True is
\* the text "True".
PyStr(x) == IF x = "<True>" THEN "True" ELSE x

(***************************************************************************)
(* Events.                                                                 *)
(***************************************************************************)
\* An event log whose emit drops the tags.
EventUntagged(type, loc, tags, target) ==
    [type |-> type, location |-> loc, tags |-> {}, target |-> target]

Event(type, loc, tags, target) ==
    [type |-> type, location |-> loc, tags |-> tags, target |-> target]

RECURSIVE DiscoveredBy(_, _)
\* WorldStateManager.handle_event over the events of one turn: DISCOVERY
\* marks its target discovered when that region is registered.
DiscoveredBy(evs, disc) ==
    IF evs = <<>> THEN disc
    ELSE LET e == Head(evs)
         IN DiscoveredBy(Tail(evs),
                IF e.type = "discovery" /\ e.target # NoneV /\ e.target \in ws_regions
                THEN disc \cup {e.target} ELSE disc)

(***************************************************************************)
(* Command handlers.  Each yields the set of effects the handler can have, *)
(* one per outcome of the callbacks and LLM calls it makes.                *)
(***************************************************************************)
Eff0 ==
    [raised |-> FALSE, resp |-> "", handler |-> "none", loc |-> player_loc,
     emitted |-> <<>>, hook_log |-> <<>>, llm |-> 0,
     nodes |-> nodes, edges |-> edges, gen_cache |-> gen_cache]

\* state.get("location", "Unknown")
CurrLoc == IF player_loc = NoneV THEN "Unknown" ELSE player_loc

\* A map whose every node neighbours every id.
NeighborsAll(e, n) == AllIds

\* MapTopologyEngine.get_neighbors: the targets with a Travel field.
Neighbors(e, n) == IF n \in AllIds THEN {t \in AllIds : e[<<n, t>>] # NoEdge} ELSE {}

\* RuntimeEngine._handle_move_command on effect e0 (the state so far).
HandleMoveOn(e0, curr_loc, input) ==
    IF Len(input) < 2
    THEN {[e0 EXCEPT !.resp = "need_target", !.handler = "move"]}
    ELSE LET target == input[2]
         IN IF target \notin Neighbors(e0.edges, curr_loc)
            THEN {[e0 EXCEPT !.resp = "no_path", !.handler = "move"]}
            ELSE {[e0 EXCEPT
                     !.handler = "move",
                     !.loc = target,
                     !.hook_log = e0.hook_log \o <<"on_player_moved", "on_after_action">>,
                     !.emitted = Append(e0.emitted,
                         Event("custom", target,
                               {"movement", "location_change", "player"}, NoneV)),
                     !.resp = IF InvokeHookFirst(aa) # NoneV
                              THEN PyStr(InvokeHookFirst(aa)) ELSE "moved"]
                  : aa \in HookOuts(AfterVals)}

HandleMove(curr_loc, input) == HandleMoveOn(Eff0, curr_loc, input)

\* RuntimeEngine._handle_look_command
HandleLook(curr_loc) ==
    IF curr_loc = "" THEN {[Eff0 EXCEPT !.resp = "look_undefined", !.handler = "look"]}
    ELSE IF curr_loc \notin nodes
    THEN {[Eff0 EXCEPT !.resp = "look_collapsed", !.handler = "look"]}
    ELSE {[Eff0 EXCEPT
             !.handler = "look",
             !.resp = "look_desc",
             !.emitted = IF curr_loc \notin ws_regions \/ curr_loc \notin ws_discovered
                         THEN <<Event("discovery", curr_loc, {"discovery", "location"}, curr_loc)>>
                         ELSE <<>>]}

\* RuntimeEngine._handle_events_command: get_event_summary adds the unbound
\* name to a counter once per logged event, a NameError when there is one.
HandleEvents ==
    IF Len(events) > 0 THEN {[Eff0 EXCEPT !.raised = TRUE, !.handler = "events"]}
    ELSE {[Eff0 EXCEPT !.resp = "events_summary", !.handler = "events"]}

\* _handle_status_command, _handle_world_command, _handle_plugins_command
HandleSummary(name) == {[Eff0 EXCEPT !.resp = name, !.handler = name]}

\* A plugin's command handler: replies, replies after emitting an event, or raises.
PluginHandler(p) ==
    {[Eff0 EXCEPT !.resp = "plugin_reply", !.handler = "plugin"],
     [Eff0 EXCEPT !.resp = "plugin_reply", !.handler = "plugin",
                  !.emitted = <<Event("custom", CurrLoc, {"magic", "spell_cast"}, NoneV)>>],
     [Eff0 EXCEPT !.raised = TRUE, !.handler = "plugin"]}

\* RuntimeEngine._call_dm_llm followed by the after_action hook, as
\* _handle_chat_narrative does.
ChatNarrativeOn(e0) ==
    {[e0 EXCEPT
        !.llm = e0.llm + 1,
        !.hook_log = Append(e0.hook_log, "on_after_action"),
        !.resp = IF InvokeHookFirst(aa) # NoneV THEN PyStr(InvokeHookFirst(aa)) ELSE dm]
     : aa \in HookOuts(AfterVals), dm \in {"dm_text", "dm_error"}}

\* RuntimeEngine._handle_action_resolution
ActionResolutionOn(e0, curr_loc) ==
    {[e0 EXCEPT
        !.llm = e0.llm + 1,
        !.resp = dm,
        !.emitted = Append(e0.emitted, Event("custom", curr_loc, {"action", "player"}, NoneV))]
     : dm \in {"dm_text", "dm_error"}}

\* The next id uuid4 hands out.
FreshIds(ns) == {d \in DynIds : d \notin ns /\ Cardinality(ns \cap DynIds) < MaxDyn}

\* MapTopologyEngine.create_dynamic_sub_location then _handle_move_command,
\* or the chat narrative when no id came back: RuntimeEngine._handle_explore.
HandleExploreOn(e0, curr_loc) ==
    LET called == [e0 EXCEPT !.llm = e0.llm + 1]
        created(d) ==
            [called EXCEPT
               !.nodes = called.nodes \cup {d},
               !.edges = [called.edges EXCEPT ![<<curr_loc, d>>] = "dyn_path",
                                             ![<<d, curr_loc>>] = "dyn_path"]]
    IN  UNION {HandleMoveOn(created(d), curr_loc, <<"/move", d>>) : d \in FreshIds(e0.nodes)}
        \cup ChatNarrativeOn(called)

\* RuntimeEngine._handle_natural_language
HandleNaturalLanguage(input, curr_loc) ==
    IF ~has_llm THEN {[Eff0 EXCEPT !.resp = "dm_offline", !.handler = "nl"]}
    ELSE LET a == [Eff0 EXCEPT !.llm = 1, !.handler = "nl"]
             key == <<curr_loc, Keyword>>
             explore ==
                 IF key \in gen_cache THEN {[a EXCEPT !.resp = "dynamic_content"]}
                 ELSE IF curr_loc \notin nodes THEN {[a EXCEPT !.raised = TRUE]}
                 ELSE {[a EXCEPT !.llm = 2, !.resp = "dynamic_content",
                                 !.gen_cache = a.gen_cache \cup {key}]}
                      \cup HandleExploreOn([a EXCEPT !.llm = 2], curr_loc)
         IN explore \cup ActionResolutionOn(a, curr_loc) \cup ChatNarrativeOn(a)

StartsWith(input, cmd) == Len(input) > 0 /\ Head(input) = cmd

\* RuntimeEngine._process_command.  The prefix test of str.startswith is
\* taken on the first token, which decides it for every input of Inputs.
ProcessCommand(input, curr_loc) ==
    IF Len(input) = 0 THEN {[Eff0 EXCEPT !.raised = TRUE]}
    ELSE IF GetCommandHandler(Head(input)) # NoneV
    THEN PluginHandler(GetCommandHandler(Head(input)))
    ELSE IF StartsWith(input, "/move") THEN HandleMove(curr_loc, input)
    ELSE IF StartsWith(input, "/look") THEN HandleLook(curr_loc)
    ELSE IF StartsWith(input, "/status") THEN HandleSummary("status")
    ELSE IF StartsWith(input, "/events") THEN HandleEvents
    ELSE IF StartsWith(input, "/world") THEN HandleSummary("world")
    ELSE IF StartsWith(input, "/plugins") THEN HandleSummary("plugins")
    ELSE HandleNaturalLanguage(input, curr_loc)

(***************************************************************************)
(* User inputs, as the strings the turn receives; Split is str.split() on  *)
(* them.                                                                   *)
(***************************************************************************)
Inputs ==
    {"", "/look", "/move", "/move forest", "/move cave",
     "/status", "/events", "cast", "hello"}

Split(s) ==
    CASE s = "/move forest" -> <<"/move", "forest">>
      [] s = "/move cave" -> <<"/move", "cave">>
      [] s \in {"", " "} -> <<>>
      [] OTHER -> <<s>>

\* The hook member step() names after appending the assistant message.
NarrationHookRef == "ON_Narration_GENERATED"

\* Attribute lookup on the enum class: an unknown member name raises.
HasMember(name) == name \in PluginHookType

(***************************************************************************)
(* RuntimeEngine.initialize_player                                         *)
(***************************************************************************)
InitializePlayer(start) ==
    /\ turn_count = 0
    /\ Len(events) < MaxInits
    /\ player_loc' = start
    \* register_region installs a fresh RegionState (discovered = False)
    /\ ws_regions' = ws_regions \cup {start}
    /\ ws_discovered' = ws_discovered \ {start}
    /\ events' = Append(events,
                    Event("custom", start, {"player", "character_creation"}, NoneV))
    /\ UNCHANGED <<turn_count, history, nodes, edges, ws_saves, gen_cache,
                   lifecycle, enabled, has_llm, calls>>
    /\ UNCHANGED <<llvars, wsvars, mapvars, evvars, othervars>>

(***************************************************************************)
(* RuntimeEngine.step                                                      *)
(***************************************************************************)
\* A history that keeps the user's messages only.
AddMessageUserOnly(h, role, content) ==
    IF role = "user" THEN Append(h, [role |-> role, content |-> content]) ELSE h

\* Cognition.add_message: rpush of one message onto the history list.
AddMessage(h, role, content) == Append(h, [role |-> role, content |-> content])

\* The numbered steps of the turn that ran, given whether dispatch was
\* entered and whether it raised.
StepsRun(dispatched, raised) ==
    LET pre == <<1, 2, 3, 4, 5>> \o (IF dispatched THEN <<6>> ELSE <<>>)
    IN IF raised THEN pre
       ELSE IF ~HasMember(NarrationHookRef) THEN Append(pre, 7)
       ELSE pre \o <<7, 8, 9, 10, 11, 12>>

\* The rest of the turn once the response (or the exception) of dispatch
\* is known.
Finish(input, hook_result, eff) ==
    LET tc == turn_count + 1
        dispatched == hook_result = NoneV
        hist1 == AddMessage(history, "user", input)
        hist2 == IF eff.raised THEN hist1 ELSE AddMessage(hist1, "assistant", eff.resp)
        returned == ~eff.raised /\ HasMember(NarrationHookRef)
    IN /\ turn_count' = tc
       /\ history' = hist2
       /\ player_loc' = eff.loc
       /\ events' = events \o eff.emitted
       /\ nodes' = eff.nodes
       /\ edges' = eff.edges
       /\ gen_cache' = eff.gen_cache
       /\ ws_discovered' = DiscoveredBy(eff.emitted, ws_discovered)
       /\ ws_saves' = IF returned /\ tc % SaveEvery = 0 THEN ws_saves + 1 ELSE ws_saves
       /\ calls' = Append(calls,
              [input |-> input,
               loc_before |-> player_loc,
               loc_after |-> eff.loc,
               hist_after |-> Len(hist2),
               hook_result |-> hook_result,
               steps |-> StepsRun(dispatched, eff.raised),
               outcome |-> IF returned THEN "returned" ELSE "raised",
               response |-> IF eff.raised THEN NoneV ELSE eff.resp,
               handler |-> eff.handler,
               hook_log |-> eff.hook_log,
               llm |-> eff.llm,
               emitted |-> eff.emitted])
       /\ UNCHANGED <<ws_regions, lifecycle, enabled, has_llm>>
       /\ UNCHANGED <<llvars, wsvars, mapvars, evvars, othervars>>

\* One turn on an input drawn from inputs, while the history has room
\* for its two messages under the bound cap.
StepOn(inputs, cap) ==
    /\ Len(history) + 2 <= cap
    /\ \E input \in inputs, ba \in HookOuts(BeforeVals) :
        LET hook_result == InvokeHookFirst(ba)
        IN IF hook_result # NoneV
           THEN Finish(input, hook_result, [Eff0 EXCEPT !.resp = PyStr(hook_result)])
           ELSE \E eff \in ProcessCommand(Split(input), CurrLoc) :
                    Finish(input, NoneV, eff)

Step == StepOn(Inputs, MaxHistory)

(***************************************************************************)
(* The lazy loader (core/lazy_loader.py).  Wall-clock time is counted in   *)
(* milliseconds; the code's seconds are MsPerSecond of them.               *)
(***************************************************************************)
MsPerSecond == 1000
\* RateLimiter.can_call keeps the timestamps of the last WindowSeconds.
WindowSeconds == 60

\* The defaults of LazyLoadingConfig.
CacheTtlDefault == 3600
CacheTtlLocation == 7200
CacheTtlNpc == 1800
CacheTtlNarrative == 300
MaxCacheSizeDefault == 1000
MaxCallsPerMinuteDefault == 20
MinIntervalMsDefault == 100

DefaultConfig ==
    [cache_ttl_default |-> CacheTtlDefault,
     cache_ttl_location |-> CacheTtlLocation,
     cache_ttl_npc |-> CacheTtlNpc,
     cache_ttl_narrative |-> CacheTtlNarrative,
     max_cache_size |-> MaxCacheSizeDefault,
     max_calls_per_minute |-> MaxCallsPerMinuteDefault,
     min_interval_ms |-> MinIntervalMsDefault,
     context_aware_caching |-> TRUE]

\* The members of the GenerationReason enum (their values).
GenerationReason ==
    {"cache_miss", "stale_cache", "force_refresh", "context_change",
     "new_request", "no_similar"}

\* The reason should_generate_content returns next to False on a cache hit.
HitReason == "cache_miss"

\* An entry that expires the instant its ttl is reached.
IsExpiredAtTtl(entry, t) == t - entry.created_at >= entry.ttl_seconds * MsPerSecond

\* CacheEntry.is_expired at time t
IsExpired(entry, t) == t - entry.created_at > entry.ttl_seconds * MsPerSecond

\* CacheEntry.is_context_valid
IsContextValid(entry, current_hash) == entry.context_hash = current_hash

\* LoadContext.compute_hash: the digest of these five values, taken to be
\* collision free; the world time enters by its hour.
ComputeHash(c) ==
    <<c.player_id, c.location, c.crisis_level, c.total_minutes \div 60, c.flags>>

\* The hash stored when context-aware caching is off (the empty string).
EmptyHash == <<>>

\* ContentCache._get_default_ttl
GetDefaultTtl(cfg, content_type) ==
    CASE content_type = "location" -> cfg.cache_ttl_location
      [] content_type = "npc" -> cfg.cache_ttl_npc
      [] content_type = "narrative" -> cfg.cache_ttl_narrative
      [] OTHER -> cfg.cache_ttl_default

\* Position of key k in the dict, 0 when absent.
KeyIndex(c, k) ==
    IF \E i \in 1..Len(c) : c[i].key = k
    THEN CHOOSE i \in 1..Len(c) : c[i].key = k
    ELSE 0

\* ContentCache.get: the dict after the lookup at time t (the entry, when
\* there is one, has its last_accessed set and its access_count bumped).
CacheGet(c, k, t) ==
    [i \in 1..Len(c) |->
        IF c[i].key = k
        THEN [c[i] EXCEPT !.last_accessed = t, !.access_count = @ + 1]
        ELSE c[i]]

\* The content ContentCache.get hands back through the entry, None when absent.
ContentOf(c, k) == IF KeyIndex(c, k) = 0 THEN NoneV ELSE c[KeyIndex(c, k)].content

\* The order of min() over (access_count, last_accessed).
LruBefore(a, b) ==
    \/ a.access_count < b.access_count
    \/ a.access_count = b.access_count /\ a.last_accessed < b.last_accessed

\* ContentCache.delete of the entry at position i
DeleteAt(c, i) == SubSeq(c, 1, i - 1) \o SubSeq(c, i + 1, Len(c))

\* A cache that evicts its oldest insertion, whatever was read since.
EvictFirst(c) == IF Len(c) = 0 THEN c ELSE Tail(c)

\* ContentCache._evict_lru: min() keeps the first of equal minima, in the
\* dict's insertion order.
EvictLru(c) ==
    IF Len(c) = 0 THEN c
    ELSE DeleteAt(c, CHOOSE i \in 1..Len(c) :
                        /\ \A j \in 1..(i - 1) : LruBefore(c[i], c[j])
                        /\ \A j \in (i + 1)..Len(c) : ~LruBefore(c[j], c[i]))

\* ContentCache.set at time t; ttl_seconds = 0 stands for a ttl that was not
\* given (or given as 0), which takes the default of the content type.
CacheSet(c, k, content, content_type, context_hash, ttl_seconds, t, cfg) ==
    LET c1 == IF Len(c) >= cfg.max_cache_size THEN EvictLru(c) ELSE c
        entry == [key |-> k,
                  content_type |-> content_type,
                  content |-> content,
                  context_hash |-> context_hash,
                  created_at |-> t,
                  last_accessed |-> t,
                  access_count |-> 0,
                  ttl_seconds |-> IF ttl_seconds # 0 THEN ttl_seconds
                                  ELSE GetDefaultTtl(cfg, content_type)]
    IN IF KeyIndex(c1, k) = 0 THEN Append(c1, entry)
       ELSE [c1 EXCEPT ![KeyIndex(c1, k)] = entry]

\* A limiter that forgets every call.
PruneAll(times, t) == <<>>

\* The first statement of RateLimiter.can_call: drop what left the window.
Prune(times, t) == SelectSeq(times, LAMBDA x : x > t - WindowSeconds * MsPerSecond)

\* A limiter that counts nothing.
CanCallUncounted(times, t, cfg) ==
    LET kept == Prune(times, t)
    IN ~(Len(kept) > 0 /\ t - kept[Len(kept)] < cfg.min_interval_ms)

\* RateLimiter.can_call at time t
CanCall(times, t, cfg) ==
    LET kept == Prune(times, t)
    IN IF Len(kept) >= cfg.max_calls_per_minute THEN FALSE
       ELSE IF Len(kept) > 0 /\ t - kept[Len(kept)] < cfg.min_interval_ms THEN FALSE
       ELSE TRUE

\* RateLimiter.record_call at time t
RecordCall(times, t) == Append(times, t)

Bump(st, counter) == [st EXCEPT ![counter] = @ + 1]

\* LazyLoadingStrategy.should_generate_content: the pair it returns, with
\* the cache and the counters as it leaves them.
ShouldGenerateContent(c, st, k, h, t, cfg, force) ==
    LET st1 == Bump(st, "total_calls")
        c1 == CacheGet(c, k, t)
        i == KeyIndex(c, k)
    IN IF force
       THEN [generate |-> TRUE, reason |-> "force_refresh", cache |-> c, stats |-> st1]
       ELSE IF i = 0
       THEN [generate |-> TRUE, reason |-> "cache_miss", cache |-> c1,
             stats |-> Bump(st1, "cache_misses")]
       ELSE IF IsExpired(c1[i], t)
       THEN [generate |-> TRUE, reason |-> "stale_cache", cache |-> c1,
             stats |-> Bump(st1, "cache_misses")]
       ELSE IF cfg.context_aware_caching /\ ~IsContextValid(c1[i], h)
       THEN [generate |-> TRUE, reason |-> "context_change", cache |-> c1,
             stats |-> Bump(st1, "cache_misses")]
       ELSE [generate |-> FALSE, reason |-> HitReason, cache |-> c1,
             stats |-> Bump(st1, "cache_hits")]

\* What generators return: a payload unlike any returned before.
ContentPool == <<"v1", "v2", "v3", "v4", "v5", "v6", "v7", "v8">>
KeyPool == <<"k1", "k2", "k3", "k4", "k5", "k6", "k7">>

\* One line of the request log.
LogEntry(k, force, gen, d, outcome, result, is_new, rec_at, st) ==
    [key |-> k, force |-> force, gen |-> gen,
     at |-> now,
     hash |-> ComputeHash(ctx),
     had |-> KeyIndex(cache, k) # 0,
     prev_content |-> ContentOf(cache, k),
     prev_created |-> IF KeyIndex(cache, k) = 0 THEN 0 ELSE cache[KeyIndex(cache, k)].created_at,
     prev_ttl |-> IF KeyIndex(cache, k) = 0 THEN 0 ELSE cache[KeyIndex(cache, k)].ttl_seconds,
     prev_hash |-> IF KeyIndex(cache, k) = 0 THEN EmptyHash
                   ELSE cache[KeyIndex(cache, k)].context_hash,
     generate |-> d.generate,
     reason |-> d.reason,
     outcome |-> outcome,
     result |-> result,
     is_new |-> is_new,
     rec_at |-> rec_at,
     blocked_before |-> stats.calls_blocked,
     blocked |-> st.calls_blocked]

(***************************************************************************)
(* LazyLoadingStrategy.get_cached_or_generate.  gen is what the generator  *)
(* does if it is called ("ok": returns a payload, "raise": raises), and    *)
(* latency how long it takes.                                              *)
(***************************************************************************)
GetCachedOrGenerate(k, content_type, force, gen, latency) ==
    LET h == ComputeHash(ctx)
        d == ShouldGenerateContent(cache, stats, k, h, now, config, force)
        kept == Prune(call_times, now)
        again == CacheGet(d.cache, k, now)
        done == now + latency
        content == ContentPool[Len(reqs) + 1]
    IN IF d.generate /\ ~CanCall(call_times, now, config)
       THEN \* refused by the rate limiter: the old payload, expired or not
            /\ stats' = Bump(d.stats, "calls_blocked")
            /\ cache' = again
            /\ call_times' = kept
            /\ now' = now
            /\ reqs' = Append(reqs,
                   LogEntry(k, force, "none", d, "blocked", ContentOf(again, k),
                            FALSE, -1, stats'))
       ELSE IF d.generate /\ gen = "raise"
       THEN \* the generator's exception leaves through the caller
            /\ stats' = d.stats
            /\ cache' = d.cache
            /\ call_times' = kept
            /\ now' = done
            /\ reqs' = Append(reqs,
                   LogEntry(k, force, gen, d, "raised", NoneV, FALSE, -1, stats'))
       ELSE IF d.generate
       THEN /\ stats' = d.stats
            /\ call_times' = RecordCall(kept, done)
            /\ cache' = CacheSet(d.cache, k, content, content_type,
                                 IF config.context_aware_caching THEN h ELSE EmptyHash,
                                 0, done, config)
            /\ now' = done
            /\ reqs' = Append(reqs,
                   LogEntry(k, force, gen, d, "generated", content, TRUE, done, stats'))
       ELSE /\ stats' = d.stats
            /\ cache' = again
            /\ call_times' = call_times
            /\ now' = now
            /\ reqs' = Append(reqs,
                   LogEntry(k, force, "none", d, "cached", ContentOf(again, k),
                            FALSE, -1, stats'))

ZeroStats ==
    [cache_hits |-> 0, cache_misses |-> 0, similar_reused |-> 0,
     calls_blocked |-> 0, total_calls |-> 0]

Context(location, total_minutes) ==
    [player_id |-> "player", location |-> location, crisis_level |-> 0,
     total_minutes |-> total_minutes, flags |-> {}]

\* LazyLoadingStrategy.__init__ under configuration cfg
InitLoader(cfg) ==
    /\ now = 0
    /\ config = cfg
    /\ cache = <<>>
    /\ call_times = <<>>
    /\ stats = ZeroStats
    /\ ctx = Context("tavern", 0)
    /\ reqs = <<>>

InitLL == InitLoader(DefaultConfig)

(***************************************************************************)
(* The specification of the turn loop.                                     *)
(***************************************************************************)
EnabledLists == {<<>>, <<"magic", "guard">>}
Range(s) == {s[i] : i \in 1..Len(s)}

\* The members of the EventType enum.
EventType ==
    {"discovery", "exploration_complete", "hidden_revealed", "npc_meet",
     "npc_conversation", "relationship_change", "alliance_formed",
     "combat_start", "combat_end", "quest_accepted", "quest_completed",
     "quest_failed", "item_acquired", "item_used", "world_event",
     "crisis_triggered", "time_pass", "custom"}

\* The members of the CrisisLevel enum, by value.
CrisisLevel ==
    [CALM |-> 0, LOW |-> 1, MEDIUM |-> 2, HIGH |-> 3, CRITICAL |-> 4, EMERGENCY |-> 5]

\* The quests registered in a run.
QuestIds == {"q1"}

\* The log entries before any call was made.
NoWsCall ==
    [op |-> "none", etype |-> NoneV, arg |-> NoneV, change |-> 0, ret |-> NoneV,
     status_before |-> NoneV, crisis_before |-> CrisisLevel.CALM]
NoEdges == [p \in AllIds \X AllIds |-> NoEdge]
NoMapCall ==
    [op |-> "none", regions |-> <<>>, reply |-> NoneV, ret |-> NoneV,
     rerun |-> FALSE, nodes_before |-> {}, edges_before |-> NoEdges]
NoEmit ==
    [type |-> NoneV, notified |-> <<>>, matching |-> <<>>, processed |-> FALSE,
     raised |-> FALSE]

\* WorldStateManager.__init__
InitWS ==
    /\ quests = [q \in QuestIds |-> NoneV]
    /\ crisis_level = CrisisLevel.CALM
    /\ ws_store = [saved |-> FALSE, crisis |-> CrisisLevel.CALM,
                   quests |-> [q \in QuestIds |-> NoneV]]
    /\ ws_last = NoWsCall

\* A map engine that is inside no call.
InitME ==
    /\ map_pc = [at |-> 0, parent |-> NoneV, new_id |-> NoneV]
    /\ map_faulted = FALSE
    /\ map_last = NoMapCall

\* RuntimeEngine._setup_world_state_sync: the listener the runtime registers
\* on its event system when it is constructed.
SyncListener ==
    [seq |-> 1, priority |-> 5, event_types |-> EventType,
     condition |-> NoneV, handler |-> "ok"]

\* EventSystem.__init__ followed by the registration of ls
InitES(ls) ==
    /\ listeners = ls
    /\ emit_last = NoEmit

Sessions == {"s1", "s2"}

\* The log entry before any call into a plugin manager was made.
NoPmCall ==
    [op |-> "none", session |-> NoneV, name |-> NoneV, ret |-> NoneV,
     failed |-> FALSE, before |-> NoneV, marks |-> <<>>, enabled_before |-> <<>>]

\* The class attribute PluginManager._instance before any get_instance call,
\* and no engine constructed.
InitPM ==
    /\ pm_instance = 0
    /\ managers = <<>>
    /\ engine_pm = [s \in Sessions |-> 0]
    /\ pm_last = NoPmCall

\* The fields of the player state the model follows.
StateFields == {"hp", "max_hp", "sanity", "max_sanity", "skills", "tags", "location"}

\* Values, in the store and in Python: t is the type; a str is plain text
\* (s), the decimal text of an integer (s = "str(int)", n) or the JSON text
\* of a list (s = "json", l).
Absent == [t |-> "absent", s |-> "", n |-> 0, l |-> <<>>]
IntV(n) == [t |-> "int", s |-> "", n |-> n, l |-> <<>>]
TextV(x) == [t |-> "str", s |-> x, n |-> 0, l |-> <<>>]
DigitsV(n) == [t |-> "str", s |-> "str(int)", n |-> n, l |-> <<>>]
JsonV(l) == [t |-> "str", s |-> "json", n |-> 0, l |-> l]
ListV(l) == [t |-> "list", s |-> "", n |-> 0, l |-> l]

NoState == [f \in StateFields |-> Absent]
NoMeta == [present |-> FALSE, playtime |-> 0, location |-> NoneV]
NoBlob == [exists |-> FALSE, history |-> <<>>, final_state |-> NoState, metadata |-> NoMeta]
NoCogCall ==
    [op |-> "none", ret |-> NoneV, stop |-> NoneV, after_archive |-> FALSE,
     history_before |-> <<>>, state_before |-> NoState,
     history_archived |-> <<>>, state_archived |-> NoState]

\* No client of the hot store made yet, and both stores empty.
InitCog ==
    /\ store_kind = NoneV
    /\ cog_history = <<>>
    /\ cog_state = NoState
    /\ cog_meta = NoMeta
    /\ blob = NoBlob
    /\ cog_last = NoCogCall

ContentIds == {"c1", "c2"}
NoContent == [registered |-> FALSE, repeatable |-> FALSE, loaded |-> FALSE, loads |-> 0]
NoClCall ==
    [op |-> "none", id |-> NoneV, fresh |-> FALSE, ret |-> NoneV, loaded |-> {},
     loads_before |-> [c \in ContentIds |-> 0]]

\* ContextLoader.__init__, and an empty LoadContext in the caller's hands.
InitCL ==
    /\ contents = [c \in ContentIds |-> NoContent]
    /\ held_loaded = {}
    /\ cl_last = NoClCall

\* No NPC is registered and no simulator is made yet.
NoSimCall == [op |-> "none", activities |-> <<>>]
NoSimulator == [activity |-> -1, move |-> -1, social |-> -1]

InitSim ==
    /\ npcs = <<>>
    /\ sim_config = NoSimulator
    /\ sim_ticks = 0
    /\ sim_last = NoSimCall

\* No event is stored.
NoRelCall == [op |-> "none", event_id |-> 0, depth |-> 0, result |-> <<>>]

InitRel ==
    /\ chain = <<>>
    /\ rel_last = NoRelCall

\* No dynamic node is stored.
NoRiskCall == [op |-> "none", reply |-> [t |-> "none", n |-> 0], ret |-> NoneV]

InitRisk ==
    /\ node_risk = {}
    /\ risk_last = NoRiskCall

\* Both callers outside the read-through, no generator invoked.
Callers == {"a", "b"}
Outside == [pc |-> "outside", key |-> NoneV, calls |-> 0]

InitRace ==
    /\ callers = [c \in Callers |-> Outside]
    /\ gen_at = <<>>

InitOther ==
    /\ InitPM
    /\ InitCog
    /\ InitCL
    /\ InitSim
    /\ InitRel
    /\ InitRisk
    /\ InitRace

\* RuntimeEngine.__init__, the map store apart.
InitSession ==
    /\ turn_count = 0
    /\ history = <<>>
    /\ player_loc = NoneV
    /\ events = <<>>
    /\ ws_regions = {}
    /\ ws_discovered = {}
    /\ ws_saves = 0
    /\ gen_cache = {}
    /\ has_llm \in BOOLEAN
    /\ enabled \in EnabledLists
    /\ lifecycle = [p \in Plugins |-> IF p \in Range(enabled) THEN "loaded" ELSE "unloaded"]
    /\ calls = <<>>
    /\ InitWS
    /\ InitME
    /\ InitES(<<SyncListener>>)
    /\ InitOther

\* A session on the map the bootstrap ingested.
InitRT ==
    /\ InitSession
    /\ nodes = Regions
    /\ edges = BootEdges

Init == InitRT /\ InitLL

\* The ids initialize_player is called with: a region of the map, or an id
\* the map has no node for.
StartLocations == Regions \cup {"village"}

Next ==
    \/ \E start \in StartLocations : InitializePlayer(start)
    \/ Step

Spec == Init /\ [][Next]_vars

(***************************************************************************)
(* Sessions of moving and looking: three turns fit, so that the player can *)
(* walk to a neighbouring node and look at it twice.                       *)
(***************************************************************************)
MaxLookHistory == 6
LookInputs == {"/look", "/move forest", "/move cave"}

LookStep == StepOn(LookInputs, MaxLookHistory)

NextLooks ==
    \/ \E start \in StartLocations : InitializePlayer(start)
    \/ LookStep

SpecLooks == Init /\ [][NextLooks]_vars

(***************************************************************************)
(* Sessions whose inputs are blank (empty, or white space only) or one of  *)
(* two built-in commands that always answer.                               *)
(***************************************************************************)
BlankInputs == {"", " "}
AnsweredInputs == {"/status", "/look"}

BlankStep == StepOn(BlankInputs \cup AnsweredInputs, MaxHistory)

NextBlanks ==
    \/ \E start \in StartLocations : InitializePlayer(start)
    \/ BlankStep

SpecBlanks == Init /\ [][NextBlanks]_vars

\* The length of the history when turn i began.
HistBefore(i) == IF i = 1 THEN 0 ELSE calls[i - 1].hist_after

\* C40: whatever the input, blank ones included, dispatch does not raise
\* and the turn appends the user's message and then one assistant message.
C40_EveryInputAnswered ==
    \A i \in 1..Len(calls) :
        /\ calls[i].response # NoneV
        /\ calls[i].hist_after = HistBefore(i) + 2
        /\ history[HistBefore(i) + 1] = [role |-> "user", content |-> calls[i].input]
        /\ history[HistBefore(i) + 2].role = "assistant"

\* Two turns, on the empty input and on a blank: each raised inside
\* dispatch, and the history is the two user messages with no reply.
C40_BlankLeftUnanswered ==
    /\ Len(calls) = 2
    /\ calls[1].input = ""
    /\ calls[2].input = " "
    /\ calls[1].hook_result = NoneV /\ calls[1].response = NoneV
    /\ calls[2].hook_result = NoneV /\ calls[2].response = NoneV
    /\ calls[2].steps = <<1, 2, 3, 4, 5, 6>>
    /\ history = <<[role |-> "user", content |-> ""], [role |-> "user", content |-> " "]>>

\* Turn i was a /look that emitted a DISCOVERY event.
LookDiscovered(i) ==
    /\ calls[i].handler = "look"
    /\ \E k \in 1..Len(calls[i].emitted) : calls[i].emitted[k].type = "discovery"

\* C39: once a /look at a location has emitted a DISCOVERY event, no later
\* /look at the same location emits another.
C39_DiscoveredOnce ==
    \A i \in 1..Len(calls) : \A j \in (i + 1)..Len(calls) :
        (/\ LookDiscovered(i)
         /\ calls[j].handler = "look"
         /\ calls[j].loc_before = calls[i].loc_before)
            => ~LookDiscovered(j)

\* The player walked from the start location to a neighbouring node, which
\* no one registered as a region, and two /look turns there each emitted a
\* DISCOVERY event.
C39_DiscoveredTwice ==
    /\ Len(calls) = 3
    /\ calls[1].handler = "move"
    /\ calls[1].loc_after = player_loc
    /\ player_loc \notin ws_regions
    /\ LookDiscovered(2)
    /\ LookDiscovered(3)
    /\ calls[2].loc_before = player_loc
    /\ calls[3].loc_before = player_loc

(***************************************************************************)
(* Properties of the turn loop.                                            *)
(***************************************************************************)
TwelveSteps == <<1, 2, 3, 4, 5, 6, 7, 8, 9, 10, 11, 12>>
Without(skip) == SelectSeq(TwelveSteps, LAMBDA n : n \notin skip)
Pos(seq, n) == CHOOSE k \in 1..Len(seq) : seq[k] = n
InSeq(seq, n) == \E k \in 1..Len(seq) : seq[k] = n
LastMessage(i) == history[calls[i].hist_after]
Target(i) == Split(calls[i].input)[2]
EdgeFrom(loc, target) == loc \in AllIds /\ edges[<<loc, target>>] # NoEdge

\* C1: every step() call executes the twelve steps in the order 1-12 (a
\* before_action answer leaving out dispatch, or dispatch and the append),
\* and the assistant message of step 7 is never appended before the
\* dispatch of step 6 has finished, on error paths too.
C1_TwelveStepsInOrder ==
    \A i \in 1..Len(calls) :
        /\ calls[i].steps \in {Without({}), Without({6}), Without({6, 7})}
        /\ (calls[i].hook_result = NoneV /\ InSeq(calls[i].steps, 7))
               => /\ InSeq(calls[i].steps, 6)
                  /\ Pos(calls[i].steps, 6) < Pos(calls[i].steps, 7)

\* A /look turn that appended its assistant message and then raised on
\* the hook member lookup: steps 8 to 12 did not run.
C1_TurnStopsAfterSeven ==
    \E i \in 1..Len(calls) :
        /\ calls[i].input = "/look"
        /\ calls[i].hook_result = NoneV
        /\ calls[i].steps = <<1, 2, 3, 4, 5, 6, 7>>
        /\ calls[i].outcome = "raised"
        /\ LastMessage(i).role = "assistant"

\* C2 as stated: when a before_action hook returns a non-None value the
\* response is that value, dispatch is not executed, and the assistant
\* message of step 7 is not appended.
C2_HookAnswerSkipsAppend ==
    \A i \in 1..Len(calls) :
        calls[i].hook_result # NoneV
            => /\ calls[i].response = calls[i].hook_result
               /\ ~InSeq(calls[i].steps, 6)
               /\ ~InSeq(calls[i].steps, 7)
               /\ LastMessage(i).role = "user"

\* C2 amended: when a before_action hook returns a non-None value the
\* response is the string form of that value, dispatch is not executed
\* (no handler, no event, no LLM call, location unchanged), and the turn
\* goes on at step 7: the assistant message carrying the response is
\* appended right after the user's message.
C2_HookAnswerIsAppended ==
    \A i \in 1..Len(calls) :
        calls[i].hook_result # NoneV
            => /\ calls[i].response = (IF calls[i].hook_result = "<True>" THEN "True"
                                       ELSE calls[i].hook_result)
               /\ ~InSeq(calls[i].steps, 6)
               /\ calls[i].handler = "none"
               /\ calls[i].emitted = <<>>
               /\ calls[i].llm = 0
               /\ calls[i].loc_after = calls[i].loc_before
               /\ InSeq(calls[i].steps, 7)
               /\ LastMessage(i) = [role |-> "assistant", content |-> calls[i].response]
               /\ history[calls[i].hist_after - 1] =
                      [role |-> "user", content |-> calls[i].input]

\* A turn a before_action hook answered with an object that is not a string.
C2_HookAnswered ==
    \E i \in 1..Len(calls) :
        /\ calls[i].hook_result = "<True>"
        /\ calls[i].input = "/move forest"
        /\ LastMessage(i) = [role |-> "assistant", content |-> "True"]

\* C3: a move whose target has no Travel edge out of the current location
\* answers with the inaccessibility sentinel, leaves the location
\* unchanged, emits no event and does not invoke on_player_moved.
C3_MoveWithoutEdge ==
    \A i \in 1..Len(calls) :
        (/\ calls[i].handler = "move"
         /\ Len(Split(calls[i].input)) >= 2
         /\ ~EdgeFrom(calls[i].loc_before, Target(i)))
            => /\ calls[i].response = "no_path"
               /\ calls[i].loc_after = calls[i].loc_before
               /\ calls[i].emitted = <<>>
               /\ ~InSeq(calls[i].hook_log, "on_player_moved")
               /\ (i = Len(calls) => player_loc = calls[i].loc_before)

\* The player asked to go from the tavern to the cave, which no edge joins.
C3_NoPathTaken ==
    \E i \in 1..Len(calls) :
        /\ calls[i].input = "/move cave"
        /\ calls[i].loc_before = "tavern"
        /\ calls[i].handler = "move"
        /\ calls[i].response = "no_path"

\* C4: a step("/move forest") that takes an existing edge sets the
\* location to forest and emits exactly one event in the turn, a CUSTOM
\* event tagged movement.
C4_MoveEmitsOneEvent ==
    \A i \in 1..Len(calls) :
        (/\ calls[i].input = "/move forest"
         /\ calls[i].handler = "move"
         /\ EdgeFrom(calls[i].loc_before, "forest"))
            => /\ calls[i].loc_after = "forest"
               /\ (i = Len(calls) => player_loc = "forest")
               /\ Len(calls[i].emitted) = 1
               /\ calls[i].emitted[1].type = "custom"
               /\ "movement" \in calls[i].emitted[1].tags
               /\ calls[i].emitted[1].location = "forest"
               /\ InSeq(events, calls[i].emitted[1])

\* The player walked from the tavern to the forest.
C4_MovedToForest ==
    \E i \in 1..Len(calls) :
        /\ calls[i].input = "/move forest"
        /\ calls[i].loc_before = "tavern"
        /\ calls[i].handler = "move"
        /\ calls[i].loc_after = "forest"
        /\ Len(calls[i].emitted) = 1

\* C10: of two consecutive step() calls with the same natural-language
\* input at the same location, the first makes at most two LLM calls and
\* the second makes none.
C10_SecondTurnFromCache ==
    \A i \in 1..(Len(calls) - 1) :
        (/\ calls[i].input = calls[i + 1].input
         /\ calls[i].handler = "nl"
         /\ calls[i + 1].handler = "nl"
         /\ has_llm
         /\ calls[i].loc_before = calls[i + 1].loc_before)
            => /\ calls[i].llm <= 2
               /\ calls[i + 1].llm = 0

\* The same sentence twice at the same place, classified and narrated by
\* the LLM both times.
C10_SecondTurnCallsAgain ==
    \E i \in 1..(Len(calls) - 1) :
        /\ calls[i].input = "hello"
        /\ calls[i + 1].input = "hello"
        /\ calls[i].loc_before = calls[i + 1].loc_before
        /\ calls[i].llm = 2
        /\ calls[i + 1].llm = 2
        /\ calls[i].response = calls[i + 1].response

(***************************************************************************)
(* The specification of the lazy loader: one strategy object, called by a  *)
(* single thread while the wall clock and the game context move on.        *)
(***************************************************************************)
\* The longest request log of a run.
MaxReqs == 3

\* The configurations the loader is built with: the defaults, but for two
\* calls a minute and context-aware caching on or off.
CacheConfigs ==
    {[DefaultConfig EXCEPT !.max_calls_per_minute = 2, !.context_aware_caching = ca]
        : ca \in BOOLEAN}

CacheKeys == {KeyPool[1]}
\* The instants at which the clock is read: at the minimum interval, inside
\* and at the end of the rate window, at and after the narrative ttl.
Instants == {100, 30000, 60000, 300000, 300050}
Latencies == {0, 150}
\* The world clock of the context: two readings in one hour, one in the next.
WorldMinutes == {0, 30, 60}

\* The runtime of a session that takes no turn.
IdleRT ==
    /\ InitRT
    /\ has_llm = FALSE
    /\ enabled = <<>>

\* time.time() has moved on to instant t when the next call is made.
Advance(t) ==
    /\ Len(reqs) < MaxReqs
    /\ t > now
    /\ now' = t
    /\ UNCHANGED <<config, cache, call_times, stats, ctx, reqs>>
    /\ UNCHANGED <<rtvars, wsvars, mapvars, evvars, othervars>>

\* The world clock ran on: the next LoadContext reads a later time.
ChangeContext(m) ==
    /\ Len(reqs) < MaxReqs
    /\ m > ctx.total_minutes
    /\ ctx' = [ctx EXCEPT !.total_minutes = m]
    /\ UNCHANGED <<now, config, cache, call_times, stats, reqs>>
    /\ UNCHANGED <<rtvars, wsvars, mapvars, evvars, othervars>>

Request(k, force, gen, latency) ==
    /\ Len(reqs) < MaxReqs
    /\ GetCachedOrGenerate(k, "narrative", force, gen, latency)
    /\ UNCHANGED <<config, ctx>>
    /\ UNCHANGED <<rtvars, wsvars, mapvars, evvars, othervars>>

InitCache == IdleRT /\ \E cfg \in CacheConfigs : InitLoader(cfg)

NextCache ==
    \/ \E t \in Instants : Advance(t)
    \/ \E m \in WorldMinutes : ChangeContext(m)
    \/ \E k \in CacheKeys, force \in BOOLEAN, gen \in {"ok", "raise"}, latency \in Latencies :
           Request(k, force, gen, latency)

SpecCache == InitCache /\ [][NextCache]_vars

(***************************************************************************)
(* Properties of the lazy loader.                                          *)
(***************************************************************************)
\* The requests whose generator call was recorded by record_call.
Recorded == {i \in 1..Len(reqs) : reqs[i].rec_at >= 0}
\* The age of the entry request i found, and whether its hash still matched.
Age(i) == reqs[i].at - reqs[i].prev_created
TtlMs(i) == reqs[i].prev_ttl * 1000
HashMatches(i) == ~config.context_aware_caching \/ reqs[i].prev_hash = reqs[i].hash
\* Requests that found an entry for their key and did not force a refresh.
Found == {i \in 1..Len(reqs) : reqs[i].had /\ ~reqs[i].force}

\* C5: the record_call timestamps of calls admitted through the read-through
\* that fall inside any window of 60 seconds (from an instant on, up to but
\* not including the instant 60 seconds later) never number more than
\* max_calls_per_minute.
C5_WindowHoldsAtMostMax ==
    \A i \in Recorded :
        Cardinality({j \in Recorded :
                        /\ reqs[j].rec_at >= reqs[i].rec_at
                        /\ reqs[j].rec_at < reqs[i].rec_at + 60000})
            <= config.max_calls_per_minute

\* Two calls were admitted and recorded; a third, inside their window and
\* past the minimum interval, was refused.
C5_WindowFull ==
    /\ Len(reqs) = 3
    /\ Recorded = {1, 2}
    /\ reqs[3].outcome = "blocked"
    /\ reqs[3].at - reqs[2].rec_at >= config.min_interval_ms
    /\ reqs[3].at < reqs[1].rec_at + 60000


\* C6 as stated: once k holds v, a read of k returns v if and only if the
\* entry is unexpired (now minus created is less than its ttl) and either
\* context-aware caching is off or the stored hash equals the current one.
C6_ReturnsIffFreshAndValid ==
    \A i \in Found :
        reqs[i].outcome # "raised"
            => ((reqs[i].result = reqs[i].prev_content)
                    <=> (Age(i) < TtlMs(i) /\ HashMatches(i)))

\* C6 amended: once k holds v, the read-through takes the entry for a hit
\* (no generator call, v returned) if and only if now minus created is at
\* most the ttl and either context-aware caching is off or the stored hash
\* equals the current one; otherwise it generates a new payload, or, when
\* the rate limiter refuses, still returns v: ContentCache.get itself hands
\* back the entry whatever its age and context.
C6_HitIffFreshAndValid ==
    \A i \in Found :
        /\ (reqs[i].outcome = "cached") <=> (Age(i) <= TtlMs(i) /\ HashMatches(i))
        /\ reqs[i].outcome = "cached"
              => reqs[i].result = reqs[i].prev_content /\ ~reqs[i].is_new
        /\ reqs[i].outcome = "blocked" => reqs[i].result = reqs[i].prev_content
        /\ reqs[i].outcome = "generated"
              => reqs[i].result # reqs[i].prev_content /\ reqs[i].is_new

\* An entry whose context had changed was read while the limiter refused
\* the call: its payload came back.
C6_StaleReturned ==
    \E j \in Found :
        /\ reqs[j].outcome = "blocked"
        /\ ~HashMatches(j)
        /\ reqs[j].prev_content # NoneV
        /\ reqs[j].result = reqs[j].prev_content


\* The decision C7 describes for request i, its cases in their order.
Decision(i) ==
    IF reqs[i].force THEN <<TRUE, "force_refresh">>
    ELSE IF ~reqs[i].had THEN <<TRUE, "cache_miss">>
    ELSE IF Age(i) > TtlMs(i) THEN <<TRUE, "stale_cache">>
    ELSE IF config.context_aware_caching /\ reqs[i].prev_hash # reqs[i].hash
    THEN <<TRUE, "context_change">>
    ELSE <<FALSE, "cache_hit">>

\* C7: the generation decision returns (true, FORCE_REFRESH) when forced,
\* else (true, CACHE_MISS) without an entry, else (true, STALE_CACHE) for an
\* expired entry, else (true, CONTEXT_CHANGE) when context-aware caching is
\* on and the hashes differ, and otherwise (false, CACHE_HIT).
C7_DecisionInOrder ==
    \A i \in 1..Len(reqs) : <<reqs[i].generate, reqs[i].reason>> = Decision(i)

\* A hit (fresh entry, matching context, no force) reported as a miss.
C7_HitReportedAsMiss ==
    \E i \in Found :
        /\ Age(i) <= TtlMs(i)
        /\ HashMatches(i)
        /\ reqs[i].generate = FALSE
        /\ reqs[i].reason = "cache_miss"
        /\ reqs[i].reason \in GenerationReason
        /\ "cache_hit" \notin GenerationReason

\* C9: when the generator called by the read-through fails, the failure is
\* not propagated: the read-through returns the stale payload of the key
\* if there is one, counting the call as blocked, and None if there is none.
C9_GeneratorFailureAbsorbed ==
    \A i \in 1..Len(reqs) :
        reqs[i].gen = "raise"
            => /\ reqs[i].outcome # "raised"
               /\ reqs[i].had
                     => /\ reqs[i].result = reqs[i].prev_content
                        /\ reqs[i].blocked = reqs[i].blocked_before + 1
               /\ ~reqs[i].had => reqs[i].result = NoneV

\* The generator failed on a key that had a stale payload: the exception
\* left the read-through and calls_blocked stayed as it was.
C9_GeneratorFailureRaised ==
    \E i \in 1..Len(reqs) :
        /\ reqs[i].gen = "raise"
        /\ reqs[i].had
        /\ reqs[i].outcome = "raised"
        /\ reqs[i].blocked = reqs[i].blocked_before

(***************************************************************************)
(* The specification of a burst: misses on keys never asked for before,    *)
(* all within one second, against a limiter of three calls a minute.       *)
(***************************************************************************)
\* The number of requests of the burst.
BurstSize == 5
\* max_calls_per_minute of the burst's configuration.
BurstMaxCalls == 3

BurstConfigs ==
    {[DefaultConfig EXCEPT !.max_calls_per_minute = BurstMaxCalls, !.min_interval_ms = mi]
        : mi \in {0, MinIntervalMsDefault}}

Gaps == {50, 100, 200}

\* The clock runs on by d, short of one second after the start.
Tick(d) ==
    /\ Len(reqs) < BurstSize
    /\ now + d < MsPerSecond
    /\ now' = now + d
    /\ UNCHANGED <<config, cache, call_times, stats, ctx, reqs>>
    /\ UNCHANGED <<rtvars, wsvars, mapvars, evvars, othervars>>

\* The next read-through of the burst, for a key not used so far.
BurstRequest ==
    /\ Len(reqs) < BurstSize
    /\ GetCachedOrGenerate(KeyPool[Len(reqs) + 1], "narrative", FALSE, "ok", 0)
    /\ UNCHANGED <<config, ctx>>
    /\ UNCHANGED <<rtvars, wsvars, mapvars, evvars, othervars>>

InitBurst == IdleRT /\ \E cfg \in BurstConfigs : InitLoader(cfg)

NextBurst ==
    \/ \E d \in Gaps : Tick(d)
    \/ BurstRequest

SpecBurst == InitBurst /\ [][NextBurst]_vars

(***************************************************************************)
(* Properties of the burst.                                                *)
(***************************************************************************)
FirstFive == 1..5
Generated == {i \in FirstFive : reqs[i].outcome = "generated"}
Refused == {i \in FirstFive : reqs[i].outcome = "blocked"}
\* Every request of the burst came min_interval_ms or more after the one before.
Spaced == \A i \in 2..5 : reqs[i].at - reqs[i - 1].at >= config.min_interval_ms

\* C8 as stated: with max_calls_per_minute = 3, of five read-throughs for
\* five distinct uncached keys within one second exactly three invoke the
\* generator, the other two return a stale payload or None without invoking
\* it, and calls_blocked is 2 afterwards.
C8_ExactlyThreeGenerate ==
    Len(reqs) >= 5
        => /\ Cardinality(Generated) = 3
           /\ Cardinality(Refused) = 2
           /\ reqs[5].blocked = 2

\* C8 amended: with max_calls_per_minute = 3, of five read-throughs for five
\* distinct uncached keys within one second, each issued min_interval_ms
\* (100 by default) or more after the one before, exactly three invoke the
\* generator, the other two return None without invoking it, and
\* calls_blocked is 2 afterwards.  Whatever the spacing, at most three
\* invoke the generator, every other one is refused and returns None, and
\* calls_blocked counts the refused.
C8_ThreeGenerateWhenSpaced ==
    Len(reqs) >= 5
        => /\ Cardinality(Generated) <= 3
           /\ Generated \cup Refused = FirstFive
           /\ \A i \in Refused : reqs[i].result = NoneV /\ ~reqs[i].is_new
           /\ reqs[5].blocked = Cardinality(Refused)
           /\ Spaced => /\ Generated = {1, 2, 3}
                        /\ Refused = {4, 5}
                        /\ reqs[5].blocked = 2

\* Five requests a tenth of a second apart under the default minimum
\* interval: three generated, two refused.
C8_SpacedBurst ==
    /\ Len(reqs) = 5
    /\ config.min_interval_ms = 100
    /\ \A i \in 2..5 : reqs[i].at - reqs[i - 1].at = 100
    /\ Generated = {1, 2, 3}
    /\ reqs[5].blocked = 2

(***************************************************************************)
(* The content cache on its own: ContentCache.get and ContentCache.set     *)
(* under a clock, with room for LruCapacity entries.                       *)
(***************************************************************************)
LruCapacity == 2
\* The number of cache calls of one run.
MaxLruOps == 4

LruConfig == [DefaultConfig EXCEPT !.max_cache_size = LruCapacity]
\* One key more than the cache can hold.
LruKeys == {KeyPool[i] : i \in 1..(LruCapacity + 1)}

\* time.time() is one second later at the next call (the run sees as many
\* instants as it takes to tell the cache's entries apart).
LruTick ==
    /\ Len(reqs) < MaxLruOps
    /\ now < LruCapacity * MsPerSecond
    /\ now' = now + MsPerSecond
    /\ UNCHANGED <<config, cache, call_times, stats, ctx, reqs>>
    /\ UNCHANGED <<rtvars, wsvars, mapvars, evvars, othervars>>

\* ContentCache.get(k)
LruGet(k) ==
    /\ Len(reqs) < MaxLruOps
    /\ cache' = CacheGet(cache, k, now)
    /\ reqs' = Append(reqs, [op |-> "get", key |-> k, before |-> cache,
                             after |-> CacheGet(cache, k, now)])
    /\ UNCHANGED <<now, config, call_times, stats, ctx>>
    /\ UNCHANGED <<rtvars, wsvars, mapvars, evvars, othervars>>

\* ContentCache.set(k, content, NARRATIVE, "")
LruSet(k) ==
    LET after == CacheSet(cache, k, ContentPool[Len(reqs) + 1], "narrative",
                          EmptyHash, 0, now, config)
    IN /\ Len(reqs) < MaxLruOps
       /\ cache' = after
       /\ reqs' = Append(reqs, [op |-> "set", key |-> k, before |-> cache,
                                after |-> after])
       /\ UNCHANGED <<now, config, call_times, stats, ctx>>
       /\ UNCHANGED <<rtvars, wsvars, mapvars, evvars, othervars>>

InitLru == IdleRT /\ InitLoader(LruConfig)

NextLru ==
    \/ LruTick
    \/ \E k \in LruKeys : LruGet(k)
    \/ \E k \in LruKeys : LruSet(k)

SpecLru == InitLru /\ [][NextLru]_vars

(***************************************************************************)
(* Properties of the content cache.                                        *)
(***************************************************************************)
KeysOf(c) == {c[i].key : i \in 1..Len(c)}
\* The set calls that insert a key the full cache does not hold.
FullInserts ==
    {i \in 1..Len(reqs) :
        /\ reqs[i].op = "set"
        /\ Len(reqs[i].before) = config.max_cache_size
        /\ reqs[i].key \notin KeysOf(reqs[i].before)}

\* C11: when the cache is full (capacity 2 holding two keys) and a further
\* distinct key is inserted, the cache holds exactly capacity entries
\* afterwards, the new key among them, and the one entry that was removed
\* had the least access count of all, and among those of least access
\* count the oldest last-accessed time.
C11_EvictsLeastAccessed ==
    \A i \in FullInserts :
        LET before == reqs[i].before
            after == reqs[i].after
        IN /\ Len(after) = config.max_cache_size
           /\ reqs[i].key \in KeysOf(after)
           /\ \E j \in 1..Len(before) :
                /\ KeysOf(after) = (KeysOf(before) \ {before[j].key}) \cup {reqs[i].key}
                /\ \A m \in 1..Len(before) : ~LruBefore(before[m], before[j])

\* Three distinct keys went in, the first was read in between, and the
\* second, never read, is the one that left.
C11_ThirdKeyEvictsUnread ==
    /\ config.max_cache_size = 2
    /\ \E i \in FullInserts :
        /\ Len(reqs[i].before) = 2
        /\ reqs[i].before[1].access_count > reqs[i].before[2].access_count
        /\ KeysOf(reqs[i].after) = {reqs[i].before[1].key, reqs[i].key}

(***************************************************************************)
(* The world state (core/world_state.py) and what the world simulator      *)
(* (core/world_simulator.py) does to its crisis level.                     *)
(***************************************************************************)
\* The crisis_change an event may carry, and those of the simulator's
\* event templates.
CrisisChanges == {-2, -1, 0, 1, 7}
TemplateChanges == {-1, 0, 1, 2}
\* The quest_id of a call or of a quest event: a quest of the run, or the ""
\* that stands in for a missing field (an id that was never registered).
EventQuestIds == QuestIds \cup {""}

Min2(a, b) == IF a < b THEN a ELSE b
Max2(a, b) == IF a > b THEN a ELSE b

\* A crisis level that follows every change as far as it goes.
Unsaturated(v) == v

\* max(CALM, min(EMERGENCY, v)), as handle_event and _apply_world_event
\* compute the new level.
Saturate(v) == Max2(CrisisLevel.CALM, Min2(CrisisLevel.EMERGENCY, v))

\* self.quests.get(quest_id) and the status of what it returns
StatusOf(qs, q) == IF q \in QuestIds THEN qs[q] ELSE NoneV

\* accept_quest, complete_quest and fail_quest: the quest moves from the
\* status the method asks for to the one it sets, and the call returns
\* True; any other quest, or none, is left alone and the call returns False.
Transition(qs, q, from, to) ==
    IF StatusOf(qs, q) = from
    THEN [quests |-> [qs EXCEPT ![q] = to], ret |-> TRUE]
    ELSE [quests |-> qs, ret |-> FALSE]

AcceptQuestOn(qs, q) == Transition(qs, q, "available", "active")
CompleteQuestOn(qs, q) == Transition(qs, q, "active", "completed")
FailQuestOn(qs, q) == Transition(qs, q, "active", "failed")

\* A listener that moves quests and leaves the crisis level alone.
HandleEventNoCrisis(qs, cr, etype, q, d) ==
    [quests |-> IF etype = "quest_accepted" THEN AcceptQuestOn(qs, q).quests
                ELSE IF etype = "quest_completed" THEN CompleteQuestOn(qs, q).quests
                ELSE qs,
     crisis |-> cr]

\* WorldStateManager.handle_event on the quests qs and the crisis level cr,
\* for an event of type etype carrying quest_id q or crisis_change d.
HandleEventOn(qs, cr, etype, q, d) ==
    CASE etype = "quest_accepted" ->
            [quests |-> AcceptQuestOn(qs, q).quests, crisis |-> cr]
      [] etype = "quest_completed" ->
            [quests |-> CompleteQuestOn(qs, q).quests,
             crisis |-> IF cr > CrisisLevel.LOW THEN cr - 1 ELSE cr]
      [] etype = "world_event" ->
            [quests |-> qs, crisis |-> Saturate(cr + d)]
      [] OTHER -> [quests |-> qs, crisis |-> cr]

\* WorldSimulator._apply_world_event: the simulator moves the crisis level
\* itself and then emits a WORLD_EVENT carrying the same change, which a
\* world state listening on the event system (synced) applies once more.
ApplyWorldEventOn(cr, d, synced) ==
    LET own == IF d # 0 THEN Saturate(cr + d) ELSE cr
    IN IF synced THEN HandleEventOn(quests, own, "world_event", "", d).crisis ELSE own

\* WorldSimulator._adjust_crisis_level: both draws read the level the
\* method started with.
AdjustCrisisLevelOn(cr, decay, escalate) ==
    LET after_decay == IF cr > CrisisLevel.CALM /\ decay THEN cr - 1 ELSE cr
    IN IF cr < CrisisLevel.EMERGENCY /\ escalate THEN cr + 1 ELSE after_decay

\* One line of the call log, and the state the call leaves.
WsCall(op, etype, arg, change, ret, qs, cr) ==
    /\ quests' = qs
    /\ crisis_level' = cr
    /\ ws_last' = [op |-> op, etype |-> etype, arg |-> arg, change |-> change,
                   ret |-> ret,
                   status_before |-> StatusOf(quests, arg),
                   crisis_before |-> crisis_level]
    /\ UNCHANGED <<rtvars, llvars, mapvars, evvars, othervars>>

\* WorldStateManager.register_quest: a fresh QuestState under the id,
\* whatever was there.
RegisterQuest(q) ==
    /\ WsCall("register_quest", NoneV, q, 0, NoneV, [quests EXCEPT ![q] = "available"],
              crisis_level)
    /\ UNCHANGED ws_store

AcceptQuest(q) ==
    /\ WsCall("accept_quest", NoneV, q, 0, AcceptQuestOn(quests, q).ret,
              AcceptQuestOn(quests, q).quests, crisis_level)
    /\ UNCHANGED ws_store

CompleteQuest(q) ==
    /\ WsCall("complete_quest", NoneV, q, 0, CompleteQuestOn(quests, q).ret,
              CompleteQuestOn(quests, q).quests, crisis_level)
    /\ UNCHANGED ws_store

FailQuest(q) ==
    /\ WsCall("fail_quest", NoneV, q, 0, FailQuestOn(quests, q).ret,
              FailQuestOn(quests, q).quests, crisis_level)
    /\ UNCHANGED ws_store

\* handle_event for a quest event
HandleQuestEvent(etype, q) ==
    LET r == HandleEventOn(quests, crisis_level, etype, q, 0)
    IN /\ WsCall("handle_event", etype, q, 0, NoneV, r.quests, r.crisis)
       /\ UNCHANGED ws_store

\* handle_event for a WORLD_EVENT
HandleWorldEvent(d) ==
    LET r == HandleEventOn(quests, crisis_level, "world_event", "", d)
    IN /\ WsCall("handle_event", "world_event", NoneV, d, NoneV, r.quests, r.crisis)
       /\ UNCHANGED ws_store

\* WorldStateManager.set_crisis_level with a member of the enum
SetCrisisLevel(level) ==
    /\ WsCall("set_crisis_level", NoneV, NoneV, 0, NoneV, quests, level)
    /\ UNCHANGED ws_store

\* WorldSimulator.simulate_tick: at most one world event, then the
\* adjustment of the crisis level.
SimulateTick(fires, d, synced, decay, escalate) ==
    LET cr1 == IF fires THEN ApplyWorldEventOn(crisis_level, d, synced) ELSE crisis_level
    IN /\ WsCall("simulate_tick", NoneV, NoneV, IF fires THEN d ELSE 0, NoneV, quests,
                 AdjustCrisisLevelOn(cr1, decay, escalate))
       /\ UNCHANGED ws_store

\* WorldStateManager.save: the global key and one key per quest in memory
\* (a key written earlier for a quest no longer in memory stays).
Save ==
    /\ ws_store' =
          [saved |-> TRUE,
           crisis |-> crisis_level,
           quests |-> [q \in QuestIds |->
                          IF quests[q] # NoneV THEN quests[q] ELSE ws_store.quests[q]]]
    /\ WsCall("save", NoneV, NoneV, 0, NoneV, quests, crisis_level)

\* WorldStateManager.load: what the store holds replaces what memory holds.
Load ==
    /\ WsCall("load", NoneV, NoneV, 0, TRUE,
              [q \in QuestIds |->
                  IF ws_store.quests[q] # NoneV THEN ws_store.quests[q] ELSE quests[q]],
              IF ws_store.saved THEN ws_store.crisis ELSE crisis_level)
    /\ UNCHANGED ws_store

InitWorld == IdleRT /\ InitLL

NextWorld ==
    \/ \E q \in QuestIds : RegisterQuest(q)
    \/ \E q \in EventQuestIds : AcceptQuest(q)
    \/ \E q \in EventQuestIds : CompleteQuest(q)
    \/ \E q \in EventQuestIds : FailQuest(q)
    \/ \E etype \in {"quest_accepted", "quest_completed", "quest_failed"},
          q \in EventQuestIds : HandleQuestEvent(etype, q)
    \/ \E d \in CrisisChanges : HandleWorldEvent(d)
    \/ \E level \in CrisisLevel.CALM..CrisisLevel.EMERGENCY : SetCrisisLevel(level)
    \/ \E decay \in BOOLEAN, escalate \in BOOLEAN :
          SimulateTick(FALSE, 0, FALSE, decay, escalate)
    \/ \E d \in TemplateChanges, synced \in BOOLEAN, decay \in BOOLEAN, escalate \in BOOLEAN :
          SimulateTick(TRUE, d, synced, decay, escalate)
    \/ Save
    \/ Load

SpecWorld == InitWorld /\ [][NextWorld]_vars

(***************************************************************************)
(* Properties of the world state.                                          *)
(***************************************************************************)
ValidTransitions ==
    {<<"available", "active">>, <<"active", "completed">>,
     <<"active", "failed">>, <<"active", "abandoned">>}

\* C12: whatever is called (register_quest, accept_quest, complete_quest,
\* fail_quest, quest events, load), a quest that has a status changes it
\* only from available to active or from active to completed, failed or
\* abandoned.
C12_OnlyForwardTransitions ==
    [][\A q \in QuestIds :
          (quests[q] # NoneV /\ quests'[q] # quests[q])
              => <<quests[q], quests'[q]>> \in ValidTransitions]_vars

\* register_quest was called with the id of a completed quest, which is
\* available again.
C12_CompletedRegisteredAgain ==
    /\ ws_last.op = "register_quest"
    /\ ws_last.status_before = "completed"
    /\ quests[ws_last.arg] = "available"

\* C13: after any sequence of events, simulator ticks and direct crisis
\* updates the crisis level is a level from CALM to EMERGENCY.
C13_CrisisWithinRange ==
    crisis_level \in CrisisLevel.CALM..CrisisLevel.EMERGENCY

\* A world event asked for more than EMERGENCY and the level stopped there.
C13_SaturatedAtEmergency ==
    /\ ws_last.op = "handle_event"
    /\ ws_last.etype = "world_event"
    /\ ws_last.crisis_before + ws_last.change > CrisisLevel.EMERGENCY
    /\ crisis_level = CrisisLevel.EMERGENCY

\* The crisis level a QUEST_COMPLETED event leaves.
OneStepLower(cr) == IF cr >= CrisisLevel.MEDIUM THEN cr - 1 ELSE cr

C38_OnlyCompletionLowers ==
    [][(/\ ws_last'.op = "handle_event"
        /\ ws_last'.etype = "quest_completed"
        /\ ws_last'.status_before # "active")
          => (crisis_level' = crisis_level /\ quests' = quests)]_vars

\* A QUEST_COMPLETED event named no registered quest, no status moved,
\* and the crisis level went from MEDIUM to LOW.
C38_LoweredWithoutCompletion ==
    /\ ws_last.op = "handle_event"
    /\ ws_last.etype = "quest_completed"
    /\ ws_last.arg = ""
    /\ ws_last.status_before = NoneV
    /\ \A q \in QuestIds : quests[q] # "completed"
    /\ ws_last.crisis_before = CrisisLevel.MEDIUM
    /\ crisis_level = CrisisLevel.LOW

(***************************************************************************)
(* The map store (core/map_engine.py): ingest_l2_graph as one step, and    *)
(* create_dynamic_sub_location write by write, so that the store can be    *)
(* looked at, and the call can end, between any two of its writes.         *)
(***************************************************************************)
\* What the LLM may answer when asked for a route concept or a sub-location:
\* a concept, or text no JSON can be read from.
Unparsable == "<unparsable>"
LlmReplies == {"Muddy Path", Unparsable}

\* The region lists handed to ingest_l2_graph: one or two regions with
\* different ids in either order.  A region names no neighbour, the other
\* region, or (the tavern) also "cave", which is no region of any list.
RegionDefs ==
    [region_id : {"tavern"}, neighbors : {<<>>, <<"forest">>, <<"forest", "cave">>}]
    \cup [region_id : {"forest"}, neighbors : {<<>>, <<"tavern">>}]
RegionLists ==
    {<<r>> : r \in RegionDefs}
    \cup {p \in {<<r1, r2>> : r1 \in RegionDefs, r2 \in RegionDefs} :
            p[1].region_id # p[2].region_id}

\* Step 1 of ingest_l2_graph: save_node for every region.
IngestNodes(ns, regions) == ns \cup {regions[i].region_id : i \in 1..Len(regions)}

RECURSIVE PairsOf(_)
\* The (from_id, to_id) pairs step 2 of ingest_l2_graph walks through.
PairsOf(regions) ==
    IF regions = <<>> THEN <<>>
    ELSE LET r == Head(regions)
         IN [i \in 1..Len(r.neighbors) |-> <<r.region_id, r.neighbors[i]>>]
            \o PairsOf(Tail(regions))

\* An ingest that takes no edge for written.
EdgeNeverExists(e, from, to) == FALSE

\* redis.hexists(edge_key, "Travel:<to>")
EdgeExists(e, from, to) == e[<<from, to>>] # NoEdge

\* MapTopologyEngine._generate_route_concept
GenerateRouteConcept(ns, from, to, reply) ==
    IF from \notin ns \/ to \notin ns THEN "fog_path"
    ELSE IF ~has_llm THEN "unknown_route"
    ELSE IF reply = Unparsable THEN "ERROR_FALLBACK"
    ELSE reply

\* A connection written on the side of from_id only.
ConnectOneWay(e, a, b, route, hsets) ==
    IF hsets >= 1 THEN [e EXCEPT ![<<a, b>>] = route] ELSE e

\* MapTopologyEngine.connect_nodes_with_concept, of whose two hset calls the
\* first hsets succeed: the same route_data goes into both payloads.
ConnectNodesWithConcept(e, a, b, route, hsets) ==
    LET e1 == IF hsets >= 1 THEN [e EXCEPT ![<<a, b>>] = route] ELSE e
    IN IF hsets >= 2 THEN [e1 EXCEPT ![<<b, a>>] = route] ELSE e1

RECURSIVE ConnectAll(_, _, _, _, _)
\* Step 2 of ingest_l2_graph.  When the store is lost, it is lost right after
\* the first hset the call makes: the second hset fails inside
\* connect_nodes_with_concept and nothing is written after it.
ConnectAll(e, pairs, ns, reply, lost) ==
    IF pairs = <<>> THEN e
    ELSE LET from == Head(pairs)[1]
             to == Head(pairs)[2]
             route == GenerateRouteConcept(ns, from, to, reply)
         IN IF EdgeExists(e, from, to) THEN ConnectAll(e, Tail(pairs), ns, reply, lost)
            ELSE IF lost THEN ConnectNodesWithConcept(e, from, to, route, 1)
            ELSE ConnectAll(ConnectNodesWithConcept(e, from, to, route, 2),
                            Tail(pairs), ns, reply, lost)

\* MapTopologyEngine.ingest_l2_graph
Ingest(regions, reply, lost) ==
    LET ns == IngestNodes(nodes, regions)
    IN /\ map_pc.at = 0
       /\ lost => \E i \in 1..Len(PairsOf(regions)) :
                     ~EdgeExists(edges, PairsOf(regions)[i][1], PairsOf(regions)[i][2])
       /\ nodes' = ns
       /\ edges' = ConnectAll(edges, PairsOf(regions), ns, reply, lost)
       /\ map_faulted' = (map_faulted \/ lost)
       /\ map_last' = [op |-> "ingest", regions |-> regions, reply |-> reply,
                       ret |-> IF lost THEN "lost" ELSE "True",
                       rerun |-> (map_last.op = "ingest" /\ map_last.regions = regions),
                       nodes_before |-> nodes, edges_before |-> edges]
       /\ UNCHANGED <<map_pc, sessvars, llvars, wsvars, evvars, othervars>>

\* The writes of create_dynamic_sub_location, in the order it makes them:
\* save_node, then the two hset calls of connect_nodes_with_concept.
EdgesFirst == <<"hset_parent", "hset_child", "save_node">>
CreateOrder == <<"save_node", "hset_parent", "hset_child">>

\* create_dynamic_sub_location up to its first write: the parent lookup,
\* the LLM call and the parsing of its reply.
CreateBegin(parent, reply) ==
    LET declined == parent \notin nodes \/ ~has_llm \/ reply = Unparsable
    IN /\ map_pc.at = 0
       /\ declined \/ FreshIds(nodes) # {}
       /\ \E d \in (IF declined THEN {NoneV} ELSE FreshIds(nodes)) :
            /\ map_pc' = IF declined THEN map_pc
                         ELSE [at |-> 1, parent |-> parent, new_id |-> d]
            /\ map_last' = [op |-> "create", regions |-> <<>>, reply |-> reply,
                            ret |-> IF declined THEN NoneV ELSE "pending",
                            rerun |-> FALSE,
                            nodes_before |-> nodes, edges_before |-> edges]
       /\ UNCHANGED <<nodes, edges, map_faulted, sessvars, llvars, wsvars, evvars, othervars>>

\* The next write of the call.  It succeeds ("ok"), or the store raises and
\* the call returns None; save_node also fails after its set went through,
\* when expire raises ("raise_late").
CreateWrite(outcome) ==
    LET w == CreateOrder[map_pc.at]
        written == outcome = "ok" \/ (outcome = "raise_late" /\ w = "save_node")
        route == "dyn_path"
    IN /\ map_pc.at > 0
       /\ outcome = "raise_late" => w = "save_node"
       /\ nodes' = IF written /\ w = "save_node" THEN nodes \cup {map_pc.new_id} ELSE nodes
       /\ edges' = IF written /\ w = "hset_parent"
                   THEN [edges EXCEPT ![<<map_pc.parent, map_pc.new_id>>] = route]
                   ELSE IF written /\ w = "hset_child"
                   THEN [edges EXCEPT ![<<map_pc.new_id, map_pc.parent>>] = route]
                   ELSE edges
       /\ map_pc' = IF outcome = "ok" /\ map_pc.at < Len(CreateOrder)
                    THEN [map_pc EXCEPT !.at = @ + 1]
                    ELSE [at |-> 0, parent |-> NoneV, new_id |-> NoneV]
       /\ map_faulted' = (map_faulted \/ outcome # "ok")
       /\ map_last' = [map_last EXCEPT
                          !.ret = IF outcome # "ok" THEN NoneV
                                  ELSE IF map_pc.at < Len(CreateOrder) THEN "pending"
                                  ELSE map_pc.new_id]
       /\ UNCHANGED <<sessvars, llvars, wsvars, evvars, othervars>>

\* The process stops between two writes of the call.
CreateInterrupted ==
    /\ map_pc.at > 1
    /\ map_pc' = [at |-> 0, parent |-> NoneV, new_id |-> NoneV]
    /\ map_faulted' = TRUE
    /\ map_last' = [map_last EXCEPT !.ret = "interrupted"]
    /\ UNCHANGED <<nodes, edges, sessvars, llvars, wsvars, evvars, othervars>>

\* An empty store and an engine with or without an LLM client.
InitMap ==
    /\ InitSession
    /\ InitLL
    /\ enabled = <<>>
    /\ nodes = {}
    /\ edges = NoEdges

NextMap ==
    \/ \E regions \in RegionLists, reply \in LlmReplies : Ingest(regions, reply, FALSE)
    \/ \E regions \in RegionLists : Ingest(regions, Unparsable, TRUE)
    \/ \E parent \in {"tavern", "cave"}, reply \in {"ok", Unparsable} :
           CreateBegin(parent, reply)
    \/ \E outcome \in {"ok", "raise", "raise_late"} : CreateWrite(outcome)
    \/ CreateInterrupted

SpecMap == InitMap /\ [][NextMap]_vars

(***************************************************************************)
(* Properties of the map store.  What they say of ingest_l2_graph is said  *)
(* of a store that has taken every write so far (map_faulted is false).    *)
(***************************************************************************)
\* C15: after ingest_l2_graph on any region list, whenever a has an edge
\* Travel:b, b has an edge Travel:a, and both carry the same route concept.
C15_EdgesInPairs ==
    (map_last.op = "ingest" /\ ~map_faulted)
        => \A a \in AllIds, b \in AllIds :
              EdgeExists(edges, a, b) => edges[<<b, a>>] = edges[<<a, b>>]

\* The list named the forest as the tavern's neighbour and not the tavern
\* as the forest's, and the forest has its edge back with the same concept.
C15_BackEdgeWritten ==
    /\ map_last.op = "ingest"
    /\ ~map_faulted
    /\ \E i \in 1..Len(map_last.regions) :
          /\ map_last.regions[i].region_id = "tavern"
          /\ map_last.regions[i].neighbors = <<"forest">>
    /\ \A i \in 1..Len(map_last.regions) :
          map_last.regions[i].region_id = "forest" => map_last.regions[i].neighbors = <<>>
    /\ ~EdgeExists(map_last.edges_before, "forest", "tavern")
    /\ EdgeExists(edges, "forest", "tavern")
    /\ edges[<<"forest", "tavern">>] = edges[<<"tavern", "forest">>]

\* C16: ingest_l2_graph run again with the regions of the run before it adds
\* no node and no edge and leaves the concept of every edge as it was.
C16_RerunChangesNothing ==
    (map_last.op = "ingest" /\ map_last.rerun /\ ~map_faulted)
        => nodes = map_last.nodes_before /\ edges = map_last.edges_before

\* The second run got another answer from the LLM than the one an edge of
\* the list carries since the first run.
C16_RerunWithOtherReply ==
    /\ map_last.op = "ingest"
    /\ map_last.rerun
    /\ ~map_faulted
    /\ has_llm
    /\ map_last.reply = Unparsable
    /\ \E i \in 1..Len(PairsOf(map_last.regions)) :
          edges[PairsOf(map_last.regions)[i]] = "Muddy Path"

\* The sub-location ids that an edge of the store leads to or from.
Referenced == {d \in DynIds : \E x \in AllIds : EdgeExists(edges, x, d) \/ EdgeExists(edges, d, x)}

\* C17: at every point during and after create_dynamic_sub_location, also
\* when a write fails or the call stops between two writes, an edge that
\* refers to a sub-location id exists only if that sub-location's node has
\* been saved; and when the LLM reply cannot be parsed the call returns None
\* and has written nothing.
C17_NoEdgeWithoutNode ==
    /\ Referenced \subseteq nodes
    /\ (map_last.op = "create" /\ map_last.reply = Unparsable)
          => /\ map_last.ret = NoneV
             /\ map_pc.at = 0
             /\ nodes = map_last.nodes_before
             /\ edges = map_last.edges_before

\* The call stopped after its first hset: the parent has its edge to the
\* sub-location, the sub-location has no edge back, and its node is there.
C17_StoppedBetweenHsets ==
    /\ map_last.op = "create"
    /\ map_last.ret = "interrupted"
    /\ \E d \in DynIds :
          /\ EdgeExists(edges, "tavern", d)
          /\ ~EdgeExists(edges, d, "tavern")
          /\ d \in nodes

(***************************************************************************)
(* A further property of the turn loop.                                    *)
(***************************************************************************)
\* C18: once the player has been initialized, the player's location is the
\* id of a node of the map, whatever initialize_player, move and explore
\* calls were made.
C18_LocationIsMapNode ==
    player_loc # NoneV => player_loc \in nodes

\* A turn was taken by a player standing at an id the map has no node for.
C18_TurnAtUnmappedId ==
    /\ player_loc = "village"
    /\ player_loc \notin nodes
    /\ Len(calls) > 0
    /\ calls[Len(calls)].loc_before = "village"

(***************************************************************************)
(* The listeners of the runtime's event system (core/event_system.py):     *)
(* register_listener and emit.                                             *)
(***************************************************************************)
MaxListeners == 4
MaxEmits == 2

\* What a registered listener does when an event comes by.
ListenerKinds == {"ok", "handler_raises", "filter_false", "filter_raises", "other_type"}
ListenerPriorities == {5, 10}
EmittedTypes == {"custom", "discovery"}

\* EventListener.__init__ for a listener of the given kind, the seq-th to be
\* registered.
Listener(kind, priority, seq) ==
    [seq |-> seq,
     priority |-> priority,
     event_types |-> IF kind = "other_type" THEN {"discovery"} ELSE {"custom"},
     condition |-> CASE kind = "filter_false" -> "false"
                     [] kind = "filter_raises" -> RaiseV
                     [] OTHER -> NoneV,
     handler |-> IF kind = "handler_raises" THEN RaiseV ELSE "ok"]

\* A sort that puts the newcomer ahead of its equals.
InsertAhead(sorted, x) ==
    LET ahead == SelectSeq(sorted, LAMBDA y : y.priority > x.priority)
        behind == SelectSeq(sorted, LAMBDA y : y.priority <= x.priority)
    IN ahead \o <<x>> \o behind

\* One step of the stable sort by descending priority: x goes behind every
\* element whose priority is at least its own.
InsertDesc(sorted, x) ==
    LET ahead == SelectSeq(sorted, LAMBDA y : y.priority >= x.priority)
        behind == SelectSeq(sorted, LAMBDA y : y.priority < x.priority)
    IN ahead \o <<x>> \o behind

RECURSIVE SortDesc(_)
\* list.sort(key=priority, reverse=True): equal elements keep their order.
SortDesc(ls) ==
    IF ls = <<>> THEN <<>>
    ELSE InsertDesc(SortDesc(SubSeq(ls, 1, Len(ls) - 1)), ls[Len(ls)])

\* EventListener.can_handle: False, True, or the exception of the condition.
CanHandle(l, etype) ==
    IF etype \notin l.event_types THEN "no"
    ELSE IF l.condition = RaiseV THEN RaiseV
    ELSE IF l.condition = "false" THEN "no"
    ELSE "yes"

RECURSIVE NotifyFrom(_, _, _, _)
\* EventSystem._notify_listeners from position i on: can_handle is called
\* outside the try block, handle inside it.
NotifyFrom(ls, i, etype, acc) ==
    IF i > Len(ls) THEN acc
    ELSE IF CanHandle(ls[i], etype) = RaiseV THEN [acc EXCEPT !.raised = TRUE]
    ELSE IF CanHandle(ls[i], etype) = "no" THEN NotifyFrom(ls, i + 1, etype, acc)
    ELSE NotifyFrom(ls, i + 1, etype,
            [acc EXCEPT !.notified = Append(@, ls[i]),
                        !.processed = @ \/ ls[i].handler = "ok"])

\* The listeners whose event_types hold the type and whose condition, if
\* any, returns true.
Matching(ls, etype) == SelectSeq(ls, LAMBDA l : CanHandle(l, etype) = "yes")

\* EventSystem.register_listener
RegisterListener(kind, priority) ==
    /\ Len(listeners) < MaxListeners
    /\ listeners' = SortDesc(Append(listeners, Listener(kind, priority, Len(listeners) + 1)))
    /\ UNCHANGED <<emit_last, rtvars, llvars, wsvars, mapvars, othervars>>

\* EventSystem.emit: the event is persisted, then the listeners are notified.
Emit(etype) ==
    LET out == NotifyFrom(listeners, 1, etype,
                          [notified |-> <<>>, processed |-> FALSE, raised |-> FALSE])
    IN /\ Len(events) < MaxEmits
       /\ events' = Append(events, Event(etype, "tavern", {}, NoneV))
       /\ emit_last' = [type |-> etype, notified |-> out.notified,
                        matching |-> Matching(listeners, etype),
                        processed |-> out.processed, raised |-> out.raised]
       /\ UNCHANGED <<turn_count, history, player_loc, nodes, edges, ws_regions,
                      ws_discovered, ws_saves, gen_cache, lifecycle, enabled,
                      has_llm, calls>>
       /\ UNCHANGED <<listeners, llvars, wsvars, mapvars, othervars>>

InitEvents == IdleRT /\ InitLL

NextEvents ==
    \/ \E kind \in ListenerKinds, priority \in ListenerPriorities :
           RegisterListener(kind, priority)
    \/ \E etype \in EmittedTypes : Emit(etype)

SpecEvents == InitEvents /\ [][NextEvents]_vars

(***************************************************************************)
(* Properties of the event system.                                         *)
(***************************************************************************)
\* C19: during one emit no failure of a listener, in its handler or in its
\* filter, reaches the emitter, and every matching listener is notified
\* whatever the listeners ahead of it did.
C19_ListenerFailureIsolated ==
    /\ ~emit_last.raised
    /\ \A i \in 1..Len(emit_last.matching) :
          \E j \in 1..Len(emit_last.notified) :
              emit_last.notified[j].seq = emit_last.matching[i].seq

\* The filter of one listener raised, the emit raised with it, and a
\* matching listener behind it was not notified.
C19_FilterFailureEscaped ==
    /\ emit_last.raised
    /\ \E i \in 1..Len(emit_last.matching) :
          \A j \in 1..Len(emit_last.notified) :
              emit_last.notified[j].seq # emit_last.matching[i].seq

\* C20: the listeners notified by an emit are notified in descending
\* priority, those of equal priority in the order they were registered in
\* (and the listener list is kept in that order by every registration).
C20_PriorityThenRegistration ==
    /\ \A i \in 1..Len(emit_last.notified), j \in 1..Len(emit_last.notified) :
          i < j =>
            \/ emit_last.notified[i].priority > emit_last.notified[j].priority
            \/ /\ emit_last.notified[i].priority = emit_last.notified[j].priority
               /\ emit_last.notified[i].seq < emit_last.notified[j].seq
    /\ \A i \in 1..Len(listeners), j \in 1..Len(listeners) :
          i < j =>
            \/ listeners[i].priority > listeners[j].priority
            \/ /\ listeners[i].priority = listeners[j].priority
               /\ listeners[i].seq < listeners[j].seq

\* An emit notified three listeners: one registered last and of higher
\* priority first, then two of equal priority in their registration order.
C20_LateHighPriorityFirst ==
    /\ Len(emit_last.notified) >= 3
    /\ emit_last.notified[1].priority > emit_last.notified[2].priority
    /\ emit_last.notified[1].seq > emit_last.notified[3].seq
    /\ emit_last.notified[2].priority = emit_last.notified[3].priority
    /\ emit_last.notified[2].seq < emit_last.notified[3].seq

(***************************************************************************)
(* The plugin host (core/plugin_system.py): the PluginManager that         *)
(* RuntimeEngine.__init__ obtains, and register, load and unload on it.    *)
(***************************************************************************)
MaxEnabled == 3

\* The members of PluginLifecycle, by value.
PluginLifecycle == {"unloaded", "loading", "loaded", "unloading", "error"}

\* PluginManager.__init__: no plugin registered (NoneV), none enabled.
NewManager == [plugins |-> [p \in Plugins |-> NoneV], enabled |-> <<>>]

\* PluginManager.get_instance: the instance and the objects after the call.
GetInstance(inst, ms) ==
    IF inst = 0 THEN [instance |-> Len(ms) + 1, managers |-> Append(ms, NewManager)]
    ELSE [instance |-> inst, managers |-> ms]

\* list.remove: the first occurrence goes.
RemoveFirst(seq, x) ==
    LET hits == {i \in 1..Len(seq) : seq[i] = x}
    IN IF hits = {} THEN seq
       ELSE LET k == CHOOSE i \in hits : \A j \in hits : i <= j
            IN SubSeq(seq, 1, k - 1) \o SubSeq(seq, k + 1, Len(seq))

\* A load that announces itself before it calls on_load.
LoadMarksViaLoading(outcome) ==
    IF outcome = "ok" THEN <<"loading", "loaded">> ELSE <<"loading", "error">>

\* The lifecycle marks load_plugin sets, in order, once it calls on_load.
LoadMarks(outcome) ==
    IF outcome = "ok" THEN <<"loaded">> ELSE <<"error">>

\* The lifecycle marks unload_plugin sets, in order, once it goes ahead.
UnloadMarks(outcome) ==
    IF outcome = "ok" THEN <<"unloading", "unloaded">> ELSE <<"unloading">>

\* PluginManager.load_plugin on manager mgr; on_load returns or raises.
LoadPluginOn(mgr, p, outcome) ==
    IF mgr.plugins[p] = NoneV
    THEN [mgr |-> mgr, ret |-> "False", failed |-> FALSE, marks |-> <<>>]
    ELSE IF mgr.plugins[p] = "loaded"
    THEN [mgr |-> mgr, ret |-> "True", failed |-> FALSE, marks |-> <<>>]
    ELSE LET marks == LoadMarks(outcome)
         IN [mgr |-> [plugins |-> [mgr.plugins EXCEPT ![p] = marks[Len(marks)]],
                      enabled |-> IF outcome = "ok" THEN Append(mgr.enabled, p)
                                  ELSE mgr.enabled],
             ret |-> IF outcome = "ok" THEN "True" ELSE "False",
             failed |-> outcome # "ok",
             marks |-> marks]

\* PluginManager.unload_plugin on manager mgr; on_unload returns or raises.
UnloadPluginOn(mgr, p, outcome) ==
    IF mgr.plugins[p] = NoneV \/ mgr.plugins[p] # "loaded"
    THEN [mgr |-> mgr, ret |-> "False", failed |-> FALSE, marks |-> <<>>]
    ELSE LET marks == UnloadMarks(outcome)
         IN [mgr |-> [plugins |-> [mgr.plugins EXCEPT ![p] = marks[Len(marks)]],
                      enabled |-> IF outcome = "ok" THEN RemoveFirst(mgr.enabled, p)
                                  ELSE mgr.enabled],
             ret |-> IF outcome = "ok" THEN "True" ELSE "False",
             failed |-> outcome # "ok",
             marks |-> marks]

PmUnchanged ==
    UNCHANGED <<rtvars, llvars, wsvars, mapvars, evvars, cogvars, clvars, simvars, relvars,
                riskvars, racevars>>

\* RuntimeEngine.__init__ for session s, as far as the plugin host goes.
NewRuntime(s) ==
    LET got == GetInstance(pm_instance, managers)
    IN /\ engine_pm[s] = 0
       /\ pm_instance' = got.instance
       /\ managers' = got.managers
       /\ engine_pm' = [engine_pm EXCEPT ![s] = got.instance]
       /\ pm_last' = [NoPmCall EXCEPT !.op = "new_runtime", !.session = s]
       /\ PmUnchanged

\* engine.plugin_manager.register_plugin(plugin) from session s
RegisterPlugin(s, p) ==
    LET mgr == managers[engine_pm[s]]
    IN /\ engine_pm[s] # 0
       /\ managers' = IF mgr.plugins[p] # NoneV THEN managers
                      ELSE [managers EXCEPT ![engine_pm[s]].plugins[p] = "unloaded"]
       /\ pm_last' = [op |-> "register", session |-> s, name |-> p,
                      ret |-> IF mgr.plugins[p] # NoneV THEN RaiseV ELSE NoneV,
                      failed |-> FALSE, before |-> mgr.plugins[p], marks |-> <<>>,
                      enabled_before |-> mgr.enabled]
       /\ UNCHANGED <<pm_instance, engine_pm>>
       /\ PmUnchanged

\* engine.plugin_manager.load_plugin(p, engine) from session s
LoadPlugin(s, p, outcome) ==
    LET mgr == managers[engine_pm[s]]
        out == LoadPluginOn(mgr, p, outcome)
    IN /\ engine_pm[s] # 0
       /\ Len(mgr.enabled) < MaxEnabled
       /\ managers' = [managers EXCEPT ![engine_pm[s]] = out.mgr]
       /\ pm_last' = [op |-> "load", session |-> s, name |-> p, ret |-> out.ret,
                      failed |-> out.failed, before |-> mgr.plugins[p],
                      marks |-> out.marks, enabled_before |-> mgr.enabled]
       /\ UNCHANGED <<pm_instance, engine_pm>>
       /\ PmUnchanged

\* engine.plugin_manager.unload_plugin(p, engine) from session s
UnloadPlugin(s, p, outcome) ==
    LET mgr == managers[engine_pm[s]]
        out == UnloadPluginOn(mgr, p, outcome)
    IN /\ engine_pm[s] # 0
       /\ managers' = [managers EXCEPT ![engine_pm[s]] = out.mgr]
       /\ pm_last' = [op |-> "unload", session |-> s, name |-> p, ret |-> out.ret,
                      failed |-> out.failed, before |-> mgr.plugins[p],
                      marks |-> out.marks, enabled_before |-> mgr.enabled]
       /\ UNCHANGED <<pm_instance, engine_pm>>
       /\ PmUnchanged

CallbackOutcomes == {"ok", "raise"}

InitPlugins == IdleRT /\ InitLL

NextPlugins ==
    \/ \E s \in Sessions : NewRuntime(s)
    \/ \E s \in Sessions, p \in Plugins : RegisterPlugin(s, p)
    \/ \E s \in Sessions, p \in Plugins, outcome \in CallbackOutcomes :
           LoadPlugin(s, p, outcome)
    \/ \E s \in Sessions, p \in Plugins, outcome \in CallbackOutcomes :
           UnloadPlugin(s, p, outcome)

SpecPlugins == InitPlugins /\ [][NextPlugins]_vars

(***************************************************************************)
(* Properties of the plugin host.                                          *)
(***************************************************************************)
\* The manager the last call went to, and the plugin's lifecycle in it.
LastManager == managers[engine_pm[pm_last.session]]
\* The lifecycle values the plugin went through in the last call.
LastPath == <<pm_last.before>> \o pm_last.marks
\* The changes of lifecycle in the last call, as pairs.
LastChanges ==
    {<<LastPath[i], LastPath[i + 1]>> : i \in 1..(Len(LastPath) - 1)}

\* C21: after a load whose on_load raised, or an unload whose on_unload
\* raised, the plugin is in lifecycle state ERROR and the enabled list is
\* what it was before the call.
C21_FailedCallbackMarksError ==
    (pm_last.op \in {"load", "unload"} /\ pm_last.failed) =>
        /\ LastManager.plugins[pm_last.name] = "error"
        /\ LastManager.enabled = pm_last.enabled_before

\* on_unload raised: the plugin is left UNLOADING and still enabled.
C21_UnloadFailureLeavesUnloading ==
    /\ pm_last.op = "unload"
    /\ pm_last.failed
    /\ LastManager.plugins[pm_last.name] = "unloading"
    /\ \E i \in 1..Len(LastManager.enabled) : LastManager.enabled[i] = pm_last.name

\* The chain UNLOADED, LOADING, LOADED, UNLOADING, UNLOADED.
LifecycleChain ==
    {<<"unloaded", "loading">>, <<"loading", "loaded">>,
     <<"loaded", "unloading">>, <<"unloading", "unloaded">>}

C23_SessionsDoNotShare ==
    [][\A t \in Sessions :
          (/\ engine_pm[t] # 0
           /\ pm_last'.op \in {"register", "load", "unload"}
           /\ pm_last'.session # t)
          => managers'[engine_pm'[t]] = managers[engine_pm[t]]]_vars

\* Session s1 loaded a plugin, and the engine of s2 dispatches to the same
\* manager: the plugin is enabled for s2 as well.
C23_LoadSeenByOtherSession ==
    /\ pm_last.op = "load"
    /\ pm_last.session = "s1"
    /\ pm_last.marks = <<"loaded">>
    /\ engine_pm["s2"] # 0
    /\ managers[engine_pm["s2"]].plugins[pm_last.name] = "loaded"
    /\ managers[engine_pm["s2"]].enabled # <<>>

(***************************************************************************)
(* The cognition system (core/cognition.py) on its hot store and the blob  *)
(* store: add_message, update_player_state, get_player_state,              *)
(* archive_session and load_session.                                       *)
(***************************************************************************)
MaxMsgs == 1
MaxPlaytime == 2

\* The messages a run may add.
Messages == {[role |-> "user", content |-> "hello"],
             [role |-> "assistant", content |-> "welcome"]}

\* json.dumps of a message, and json.loads of that text.
Dumps(m) == <<"json", m>>
Loads(x) == x[2]

\* The encoding update_player_state gives a value before it is stored.
Encode(v) ==
    IF v.t = "list" THEN JsonV(v.l)
    ELSE IF v.t = "int" THEN DigitsV(v.n)
    ELSE v

\* The fields get_player_state decodes as JSON, and those it parses as int.
JsonKeys == {"skills"}
IntKeys == {"hp", "max_hp", "sanity", "max_sanity"}

\* json.loads(x) inside try/except: a failure leaves x as it is.
JsonLoads(x) ==
    IF x.t = "str" /\ x.s = "json" THEN ListV(x.l)
    ELSE IF x.t = "str" /\ x.s = "str(int)" THEN IntV(x.n)
    ELSE x

\* int(x) inside try/except: a failure leaves x as it is.
IntParse(x) ==
    IF x.t = "str" /\ x.s = "str(int)" THEN IntV(x.n) ELSE x

Decode(st) ==
    [f \in StateFields |->
        IF st[f] = Absent THEN Absent
        ELSE IF f \in JsonKeys THEN JsonLoads(st[f])
        ELSE IF f \in IntKeys THEN IntParse(st[f])
        ELSE st[f]]

\* CognitionSystem.get_player_state: what it returns and what the hash
\* holds afterwards. redis-py's hgetall builds a new dict; MockRedis.hgetall
\* hands out the stored dict itself, which the decoding then writes into.
GetPlayerStateOn(kind, st) ==
    [state |-> Decode(st), stored |-> IF kind = "mock" THEN Decode(st) ELSE st]

\* hset(key, mapping=...) on a key that was just deleted: redis-py refuses an
\* empty mapping and a list value (DataError) and stores an int as its
\* decimal text; MockRedis stores every value as it is given.
HsetMapping(kind, mapping) ==
    IF kind = "mock" THEN [raised |-> FALSE, stored |-> mapping]
    ELSE IF mapping = NoState \/ \E f \in StateFields : mapping[f].t = "list"
    THEN [raised |-> TRUE, stored |-> NoState]
    ELSE [raised |-> FALSE,
          stored |-> [f \in StateFields |->
                         IF mapping[f].t = "int" THEN DigitsV(mapping[f].n)
                         ELSE mapping[f]]]

\* CognitionSystem._get_session_metadata
SessionMetadata(meta, state) ==
    IF meta.present
    THEN [present |-> TRUE, playtime |-> meta.playtime + 1,
          location |-> IF state["location"] = Absent THEN "Unknown"
                       ELSE state["location"].s]
    ELSE [present |-> TRUE, playtime |-> 1,
          location |-> IF state["location"] = Absent THEN "Start"
                       ELSE state["location"].s]

\* The default state RuntimeEngine.initialize_player writes.
DefaultState ==
    [f \in StateFields |->
        CASE f \in IntKeys -> IntV(100)
          [] f = "skills" -> ListV(<<"observation">>)
          [] f = "tags" -> ListV(<<"traveler", "outsider">>)
          [] OTHER -> TextV("tavern")]

\* The single-field updates a run may make.
StateUpdates ==
    {[field |-> "hp", value |-> IntV(n)] : n \in {-5, 150}}
    \cup {[field |-> "sanity", value |-> IntV(150)]}

\* The log entry of a call: archive and load note what the hot store held
\* before them, a load that follows an archive what it held before that.
CogCall(op, ret, stop) ==
    LET noted == op \in {"archive", "load"}
        follows == op = "load" /\ cog_last.op = "archive"
    IN [op |-> op, ret |-> ret, stop |-> stop, after_archive |-> follows,
        history_before |-> IF noted THEN cog_history ELSE <<>>,
        state_before |-> IF noted THEN cog_state ELSE NoState,
        history_archived |-> IF follows THEN cog_last.history_before ELSE <<>>,
        state_archived |-> IF follows THEN cog_last.state_before ELSE NoState]

CogUnchanged ==
    UNCHANGED <<rtvars, llvars, wsvars, mapvars, evvars, pmvars, clvars, simvars, relvars,
                riskvars, racevars>>

\* CognitionSystem.__init__: DBClient.get_redis makes the client on its
\* first call, a redis.Redis or, with no server in reach, a MockRedis.
NewCognition(kind) ==
    /\ store_kind = NoneV
    /\ store_kind' = kind
    /\ cog_last' = CogCall("new", NoneV, NoneV)
    /\ UNCHANGED <<cog_history, cog_state, cog_meta, blob>>
    /\ CogUnchanged

\* CognitionSystem.add_message
CogAddMessage(m) ==
    /\ store_kind # NoneV
    /\ Len(cog_history) < MaxMsgs
    /\ cog_history' = Append(cog_history, Dumps(m))
    /\ cog_last' = CogCall("add_message", NoneV, NoneV)
    /\ UNCHANGED <<store_kind, cog_state, cog_meta, blob>>
    /\ CogUnchanged

\* CognitionSystem.update_player_state(default_state), as initialize_player
\* calls it.
WriteDefaultState ==
    /\ store_kind # NoneV
    /\ cog_state = NoState
    /\ cog_state' = [f \in StateFields |-> Encode(DefaultState[f])]
    /\ cog_last' = CogCall("initialize", NoneV, NoneV)
    /\ UNCHANGED <<store_kind, cog_history, cog_meta, blob>>
    /\ CogUnchanged

\* CognitionSystem.update_player_state({field: value})
UpdatePlayerState(u) ==
    /\ store_kind # NoneV
    /\ cog_state' = [cog_state EXCEPT ![u.field] = Encode(u.value)]
    /\ cog_last' = CogCall("update", NoneV, NoneV)
    /\ UNCHANGED <<store_kind, cog_history, cog_meta, blob>>
    /\ CogUnchanged

\* CognitionSystem.get_player_state
GetPlayerState ==
    /\ store_kind # NoneV
    /\ cog_state' = GetPlayerStateOn(store_kind, cog_state).stored
    /\ cog_last' = CogCall("get", NoneV, NoneV)
    /\ UNCHANGED <<store_kind, cog_history, cog_meta, blob>>
    /\ CogUnchanged

\* CognitionSystem.archive_session, the blob store accepting the write;
\* the log entry carries a note of the caller's.
ArchiveNoting(note) ==
    LET got == GetPlayerStateOn(store_kind, cog_state)
    IN /\ store_kind # NoneV
       /\ cog_meta.playtime < MaxPlaytime
       /\ blob' = [exists |-> TRUE,
                   history |-> [i \in 1..Len(cog_history) |-> Loads(cog_history[i])],
                   final_state |-> got.state,
                   metadata |-> SessionMetadata(cog_meta, got.state)]
       /\ cog_state' = got.stored
       /\ cog_last' = CogCall("archive", "saves/<s>.json", note)
       /\ UNCHANGED <<store_kind, cog_history, cog_meta>>
       /\ CogUnchanged

ArchiveSession == ArchiveNoting(NoneV)

\* Where load_session may be cut short by an exception of the hot store.
LoadStops == {"none", "at_state_hset", "at_meta_set"}

\* CognitionSystem.load_session
LoadSession(stop) ==
    LET restored == [i \in 1..Len(blob.history) |-> Dumps(blob.history[i])]
        hset == HsetMapping(store_kind, blob.final_state)
    IN IF ~blob.exists
       THEN /\ store_kind # NoneV
            /\ cog_last' = CogCall("load", "False", "none")
            /\ UNCHANGED <<store_kind, cog_history, cog_state, cog_meta, blob>>
            /\ CogUnchanged
       ELSE /\ store_kind # NoneV
            /\ cog_history' = restored
            /\ cog_state' = IF stop = "at_state_hset" \/ hset.raised THEN NoState
                            ELSE hset.stored
            /\ cog_meta' = IF stop = "none" /\ ~hset.raised THEN blob.metadata
                           ELSE cog_meta
            /\ cog_last' = CogCall("load",
                                   IF stop = "none" /\ ~hset.raised THEN "True" ELSE "False",
                                   stop)
            /\ UNCHANGED <<store_kind, blob>>
            /\ CogUnchanged

InitCognition == IdleRT /\ InitLL

NextCognition ==
    \/ \E kind \in {"redis", "mock"} : NewCognition(kind)
    \/ \E m \in Messages : CogAddMessage(m)
    \/ WriteDefaultState
    \/ \E u \in StateUpdates : UpdatePlayerState(u)
    \/ GetPlayerState
    \/ ArchiveSession
    \/ \E stop \in LoadStops : LoadSession(stop)

SpecCognition == InitCognition /\ [][NextCognition]_vars

(***************************************************************************)
(* Properties of the cognition system.                                     *)
(***************************************************************************)
\* C24: a load_session that follows an archive_session, the store failing
\* nowhere, returns true and leaves the history list and the state hash as
\* they were before the archive, every field with its value and its type.
C24_ArchiveThenLoadIsIdentity ==
    (cog_last.op = "load" /\ cog_last.after_archive /\ cog_last.stop = "none") =>
        /\ cog_last.ret = "True"
        /\ cog_history = cog_last.history_archived
        /\ cog_state = cog_last.state_archived

\* On redis, the state initialize_player wrote was archived and loaded at
\* once: the load returned false and the state hash is gone.
C24_StateLostOnReload ==
    /\ cog_last.op = "load"
    /\ cog_last.after_archive
    /\ cog_last.stop = "none"
    /\ store_kind = "redis"
    /\ cog_last.state_archived # NoState
    /\ cog_last.ret = "False"
    /\ cog_state = NoState

\* C25: load_session either returns true with the history list, the state
\* hash and the metadata replaced by the saved ones, or returns false with
\* the hot history list and state hash as they were before the call.
C25_LoadAllOrNothing ==
    cog_last.op = "load" =>
        \/ /\ cog_last.ret = "True"
           /\ cog_history = [i \in 1..Len(blob.history) |-> Dumps(blob.history[i])]
           /\ Decode(cog_state) = blob.final_state
           /\ cog_meta = blob.metadata
        \/ /\ cog_last.ret = "False"
           /\ cog_history = cog_last.history_before
           /\ cog_state = cog_last.state_before

\* A load returned false after it had replaced the history list and wiped
\* the state hash.
C25_LoadFailedHalfWay ==
    /\ cog_last.op = "load"
    /\ cog_last.ret = "False"
    /\ cog_history # cog_last.history_before
    /\ cog_last.state_before # NoState
    /\ cog_state = NoState

\* C27: the stored player state has 0 <= hp <= max_hp and
\* 0 <= sanity <= max_sanity whenever both fields of a pair are there.
C27_VitalsWithinBounds ==
    /\ (cog_state["hp"] # Absent /\ cog_state["max_hp"] # Absent) =>
          (0 <= cog_state["hp"].n /\ cog_state["hp"].n <= cog_state["max_hp"].n)
    /\ (cog_state["sanity"] # Absent /\ cog_state["max_sanity"] # Absent) =>
          (0 <= cog_state["sanity"].n /\ cog_state["sanity"].n <= cog_state["max_sanity"].n)

\* A negative hp was written over the default state, and read back.
C27_NegativeHpStored ==
    /\ cog_last.op = "get"
    /\ cog_state["max_hp"] # Absent
    /\ cog_state["hp"] # Absent
    /\ cog_state["hp"].n < 0

(***************************************************************************)
(* The loadable contents of the context loader (core/context_loader.py):   *)
(* register_content, load_content, and the per-turn content check of the   *)
(* runtime (RuntimeEngine._check_and_load_content).                        *)
(***************************************************************************)
MaxLoads == 3

\* ContextLoader.load_content on contents cs with a context whose
\* loaded_content is lc; holds: the condition of the content is met.
LoadContentOn(cs, lc, id, holds) ==
    IF ~cs[id].registered \/ ~holds
    THEN [contents |-> cs, loaded_content |-> lc, ret |-> "False"]
    ELSE [contents |-> [cs EXCEPT ![id].loaded = TRUE, ![id].loads = @ + 1],
          loaded_content |-> lc \cup {id},
          ret |-> "True"]

\* ContextLoader.get_loadable_content: the candidates, as a set.
GetLoadableContent(cs, lc, matching) ==
    {c \in ContentIds :
        /\ cs[c].registered
        /\ ~(~cs[c].repeatable /\ c \in lc)
        /\ c \in matching}

RECURSIVE LoadAll(_, _, _, _)
\* ContextLoader.load_all_matching: load_content on every candidate.
LoadAll(cs, lc, todo, matching) ==
    IF todo = {} THEN [contents |-> cs, loaded_content |-> lc]
    ELSE LET c == CHOOSE x \in todo : TRUE
             out == LoadContentOn(cs, lc, c, c \in matching)
         IN LoadAll(out.contents, out.loaded_content, todo \ {c}, matching)

ClUnchanged ==
    UNCHANGED <<rtvars, llvars, wsvars, mapvars, evvars, pmvars, cogvars, simvars, relvars,
                riskvars, racevars>>

\* ContextLoader.register_content, each id being registered once in a run.
RegisterContent(id, repeatable) ==
    /\ ~contents[id].registered
    /\ contents' = [contents EXCEPT ![id] =
                       [registered |-> TRUE, repeatable |-> repeatable,
                        loaded |-> FALSE, loads |-> contents[id].loads]]
    /\ cl_last' = [NoClCall EXCEPT !.op = "register", !.id = id]
    /\ UNCHANGED held_loaded
    /\ ClUnchanged

\* ContextLoader.load_content(id, context): the caller passes the context
\* it keeps, or one it has just built.
LoadContent(id, fresh, holds) ==
    LET out == LoadContentOn(contents, IF fresh THEN {} ELSE held_loaded, id, holds)
    IN /\ contents[id].loads < MaxLoads
       /\ contents' = out.contents
       /\ held_loaded' = IF fresh THEN held_loaded ELSE out.loaded_content
       /\ cl_last' = [op |-> "load_content", id |-> id, fresh |-> fresh, ret |-> out.ret,
                      loaded |-> IF out.ret = "True" THEN {id} ELSE {},
                      loads_before |-> [c \in ContentIds |-> contents[c].loads]]
       /\ ClUnchanged

\* RuntimeEngine._check_and_load_content: a LoadContext built for this
\* turn, then load_all_matching on it.
CheckAndLoadContent(matching) ==
    LET candidates == GetLoadableContent(contents, {}, matching)
        out == LoadAll(contents, {}, candidates, matching)
    IN /\ \A c \in ContentIds : contents[c].loads < MaxLoads
       /\ contents' = out.contents
       /\ cl_last' = [op |-> "check", id |-> NoneV, fresh |-> TRUE, ret |-> NoneV,
                      loaded |-> candidates,
                      loads_before |-> [c \in ContentIds |-> contents[c].loads]]
       /\ UNCHANGED held_loaded
       /\ ClUnchanged

InitContent == IdleRT /\ InitLL

NextContent ==
    \/ \E id \in ContentIds, repeatable \in BOOLEAN : RegisterContent(id, repeatable)
    \/ \E id \in ContentIds, fresh \in BOOLEAN, holds \in BOOLEAN :
           LoadContent(id, fresh, holds)
    \/ \E matching \in SUBSET ContentIds : CheckAndLoadContent(matching)

SpecContent == InitContent /\ [][NextContent]_vars

(***************************************************************************)
(* Properties of the context loader.                                       *)
(***************************************************************************)
\* C26: a content that is not repeatable and was loaded before in the
\* session is not loaded again: load_content returns false for it, and the
\* per-turn content check leaves it out.
C26_SecondLoadRefused ==
    \A c \in ContentIds :
        (/\ contents[c].registered
         /\ ~contents[c].repeatable
         /\ cl_last.loads_before[c] >= 1)
        => /\ c \notin cl_last.loaded
           /\ contents[c].loads = cl_last.loads_before[c]
           /\ (cl_last.op = "load_content" /\ cl_last.id = c) => cl_last.ret = "False"

\* The content check of a later turn loaded a content that is not
\* repeatable and had been loaded before.
C26_LoadedAgainByLaterTurn ==
    \E c \in ContentIds :
        /\ cl_last.op = "check"
        /\ ~contents[c].repeatable
        /\ cl_last.loads_before[c] >= 1
        /\ c \in cl_last.loaded
        /\ contents[c].loads = cl_last.loads_before[c] + 1

(***************************************************************************)
(* A long session: enough turns of RuntimeEngine.step for the periodic     *)
(* save of the world state to fall due.                                    *)
(***************************************************************************)
MaxTurns == 11

\* The inputs of the long session.
TurnInputs == {"/look", "/status"}

\* RuntimeEngine.step, on one of the inputs of the long session.
TurnStep ==
    /\ turn_count < MaxTurns
    /\ \E input \in TurnInputs, ba \in HookOuts(BeforeVals) :
        LET hook_result == InvokeHookFirst(ba)
        IN IF hook_result # NoneV
           THEN Finish(input, hook_result, [Eff0 EXCEPT !.resp = PyStr(hook_result)])
           ELSE \E eff \in ProcessCommand(Split(input), CurrLoc) :
                    Finish(input, NoneV, eff)

InitTurns == IdleRT /\ InitLL

NextTurns ==
    \/ \E start \in Regions : InitializePlayer(start)
    \/ TurnStep

SpecTurns == InitTurns /\ [][NextTurns]_vars

\* C28: the world state has been saved once for every turn whose
\* turn_count is a multiple of 10, and at no other turn: after n turns
\* save() has run n \div 10 times.
C28_SavedEveryTenthTurn ==
    ws_saves = turn_count \div SaveEvery

\* The tenth turn has been taken and the world state was never saved.
C28_TenthTurnWithoutSave ==
    /\ turn_count = SaveEvery
    /\ Len(calls) = SaveEvery
    /\ calls[SaveEvery].outcome = "raised"
    /\ calls[SaveEvery].hist_after = 2 * SaveEvery
    /\ ws_saves = 0

\* C29: a turn whose narrative LLM call failed returns the DM-error
\* sentinel as its response, and the user message of that turn is in the
\* history afterwards.
C29_DmErrorReturned ==
    \A i \in 1..Len(calls) :
        calls[i].response = "dm_error" =>
            /\ calls[i].outcome = "returned"
            /\ calls[i].hist_after >= 2
            /\ history[calls[i].hist_after - 1] =
                   [role |-> "user", content |-> calls[i].input]

\* The narrative call of the last turn failed: both the user message and
\* the sentinel are in the history, and step() raised instead of returning.
C29_DmErrorTurnRaised ==
    /\ Len(calls) > 0
    /\ calls[Len(calls)].response = "dm_error"
    /\ calls[Len(calls)].llm > 0
    /\ calls[Len(calls)].outcome = "raised"
    /\ Len(history) >= 2
    /\ history[Len(history) - 1] = [role |-> "user", content |-> calls[Len(calls)].input]
    /\ history[Len(history)] = [role |-> "assistant", content |-> "dm_error"]

(***************************************************************************)
(* The world simulator and the NPCs: regions and NPCs are registered in    *)
(* the world state, a simulator is made over it, and ticks let the NPCs    *)
(* act.  A draw of random.random() is a number of hundredths, 0..99.       *)
(***************************************************************************)
MaxTicks == 2

NpcIds == {"n1", "n2"}
\* Where an NPC may be registered, and the regions that may be registered.
SimPlaces == {"tavern", "forest"}
\* world_time.hours as the routine reads it: a morning and a night.
Hours == {8, 22}

\* SimulationConfig: the defaults, and the one with both chances at 1.0.
DefaultSimulation == [activity |-> 30, move |-> 15, social |-> 10]
CertainMove == [activity |-> 100, move |-> 100, social |-> 10]
SimulationConfigs == {DefaultSimulation, CertainMove}

NPCState(id, loc) == [id |-> id, loc |-> loc, alive |-> TRUE]
NoActivity == [npc |-> NoneV, type |-> NoneV, from |-> NoneV, to |-> NoneV]

\* The place of an id in the dict of NPCs, 0 when it is no key.
NpcIndex(ns, id) ==
    IF \E i \in 1..Len(ns) : ns[i].id = id
    THEN CHOOSE i \in 1..Len(ns) : ns[i].id = id
    ELSE 0

\* random.choice over a list, by the draw that picks the index.
Choice(seq, u) == seq[(u * Len(seq)) \div 100 + 1]

\* The three draws an NPC takes in a tick (whether it acts, what it does,
\* which one random.choice picks), as far as they tell the branches apart.
Draws ==
    {[act |-> 99, kind |-> 0, pick |-> 0]}
        \cup [act : {0}, kind : {0, 99}, pick : {0, 99}]
        \cup {[act |-> 0, kind |-> 20, pick |-> 0]}

\* The regions of the world state as a list.
RegionList(regs) ==
    SelectSeq(<<"tavern", "forest", "cave">>, LAMBDA r : r \in regs)

\* The mutant of the guard: an NPC moves from any place.
RegionKnownAlways(regs, loc) == TRUE

\* get_region_state(npc.current_location) is not None
RegionKnown(regs, loc) == loc \in regs

\* WorldSimulator._generate_npc_movement
GenerateNpcMovement(npc, regs, disc, u) ==
    LET available_regions == RegionList({r \in regs : r # npc.loc /\ r \in disc})
    IN IF ~RegionKnown(regs, npc.loc) THEN NoActivity
       ELSE IF available_regions = <<>> THEN NoActivity
       ELSE [npc |-> npc.id, type |-> "move", from |-> npc.loc,
             to |-> Choice(available_regions, u)]

\* WorldSimulator._generate_npc_social: another alive NPC at the same place.
GenerateNpcSocial(ns, i) ==
    IF \E j \in 1..Len(ns) : j # i /\ ns[j].alive /\ ns[j].loc = ns[i].loc
    THEN [npc |-> ns[i].id, type |-> "social", from |-> NoneV, to |-> NoneV]
    ELSE NoActivity

\* WorldSimulator._generate_npc_routine: by the hour of the world clock.
RoutineTypes(hour) ==
    IF 6 <= hour /\ hour < 12 THEN <<"work", "gather", "patrol">>
    ELSE IF 12 <= hour /\ hour < 18 THEN <<"work", "trade", "rest">>
    ELSE <<"rest", "socialize", "guard">>

GenerateNpcRoutine(npc, hour, u) ==
    [npc |-> npc.id, type |-> Choice(RoutineTypes(hour), u), from |-> NoneV, to |-> NoneV]

\* WorldSimulator._decide_npc_activity
DecideNpcActivity(ns, i, regs, disc, cfg, draw, hour) ==
    IF draw.kind < cfg.move THEN GenerateNpcMovement(ns[i], regs, disc, draw.pick)
    ELSE IF draw.kind < cfg.move + cfg.social THEN GenerateNpcSocial(ns, i)
    ELSE GenerateNpcRoutine(ns[i], hour, draw.pick)

\* WorldSimulator._apply_npc_activity, as far as the NPC's place goes
\* (WorldStateManager.move_npc).
ApplyNpcActivity(ns, i, activity) ==
    IF activity.type = "move" /\ activity.to # NoneV /\ ns[i].alive
    THEN [ns EXCEPT ![i].loc = activity.to]
    ELSE ns

\* WorldSimulator.simulate_npc_activities, from the i-th NPC of the dict on.
RECURSIVE SimulateNpcActivities(_, _, _, _, _, _, _, _)
SimulateNpcActivities(ns, i, regs, disc, cfg, draws, hour, activities) ==
    IF i > Len(ns) THEN [npcs |-> ns, activities |-> activities]
    ELSE IF ~ns[i].alive \/ draws[i].act > cfg.activity
         THEN SimulateNpcActivities(ns, i + 1, regs, disc, cfg, draws, hour, activities)
         ELSE LET activity == DecideNpcActivity(ns, i, regs, disc, cfg, draws[i], hour)
              IN IF activity = NoActivity
                 THEN SimulateNpcActivities(ns, i + 1, regs, disc, cfg, draws, hour,
                                            activities)
                 ELSE SimulateNpcActivities(ApplyNpcActivity(ns, i, activity), i + 1,
                                            regs, disc, cfg, draws, hour,
                                            Append(activities, activity))

SimRest == <<turn_count, history, player_loc, events, nodes, edges, ws_saves,
             gen_cache, lifecycle, enabled, has_llm, calls>>
SimUnchanged ==
    UNCHANGED <<SimRest, llvars, mapvars, evvars, pmvars, cogvars, clvars, relvars,
                riskvars, racevars>>
SimCall(op) == sim_last' = [op |-> op, activities |-> <<>>]

\* WorldStateManager.register_region: a fresh RegionState, not discovered.
RegisterRegion(r) ==
    /\ ws_regions' = ws_regions \cup {r}
    /\ ws_discovered' = ws_discovered \ {r}
    /\ SimCall("register_region")
    /\ UNCHANGED <<npcs, sim_config, sim_ticks, wsvars>>
    /\ SimUnchanged

\* WorldStateManager.discover_region: nothing for an id that is no region.
DiscoverRegion(r) ==
    /\ ws_discovered' = IF r \in ws_regions THEN ws_discovered \cup {r} ELSE ws_discovered
    /\ SimCall("discover_region")
    /\ UNCHANGED <<ws_regions, npcs, sim_config, sim_ticks, wsvars>>
    /\ SimUnchanged

\* WorldStateManager.register_npc: a fresh NPCState under the id, at any
\* place the caller names.
RegisterNpc(id, loc) ==
    /\ npcs' = IF NpcIndex(npcs, id) > 0
               THEN [npcs EXCEPT ![NpcIndex(npcs, id)] = NPCState(id, loc)]
               ELSE Append(npcs, NPCState(id, loc))
    /\ SimCall("register_npc")
    /\ UNCHANGED <<ws_regions, ws_discovered, sim_config, sim_ticks, wsvars>>
    /\ SimUnchanged

\* WorldStateManager.kill_npc
KillNpc(id) ==
    /\ npcs' = IF NpcIndex(npcs, id) > 0
               THEN [npcs EXCEPT ![NpcIndex(npcs, id)].alive = FALSE]
               ELSE npcs
    /\ SimCall("kill_npc")
    /\ UNCHANGED <<ws_regions, ws_discovered, sim_config, sim_ticks, wsvars>>
    /\ SimUnchanged

\* WorldSimulator.__init__ with a configuration
NewSimulator(cfg) ==
    /\ sim_config = NoSimulator
    /\ sim_config' = cfg
    /\ SimCall("new_simulator")
    /\ UNCHANGED <<ws_regions, ws_discovered, npcs, sim_ticks, wsvars>>
    /\ SimUnchanged

\* WorldSimulator.simulate_tick: the NPCs act in the order of the dict,
\* then at most one world event, then the adjustment of the crisis level.
\* No listener is registered with the event system of this world.
SimulateTickNpcs(hour, fires, d, synced, decay, escalate) ==
    \E draws \in [1..Len(npcs) -> Draws] :
    LET r == SimulateNpcActivities(npcs, 1, ws_regions, ws_discovered, sim_config,
                                   draws, hour, <<>>)
        cr1 == IF fires THEN ApplyWorldEventOn(crisis_level, d, synced) ELSE crisis_level
    IN /\ sim_config # NoSimulator
       /\ sim_ticks < MaxTicks
       /\ sim_ticks' = sim_ticks + 1
       /\ npcs' = r.npcs
       /\ sim_last' = [op |-> "simulate_tick", activities |-> r.activities]
       /\ crisis_level' = AdjustCrisisLevelOn(cr1, decay, escalate)
       /\ ws_last' = [op |-> "simulate_tick", etype |-> NoneV, arg |-> NoneV,
                      change |-> IF fires THEN d ELSE 0, ret |-> NoneV,
                      status_before |-> StatusOf(quests, NoneV),
                      crisis_before |-> crisis_level]
       /\ UNCHANGED <<ws_regions, ws_discovered, sim_config, quests, ws_store>>
       /\ SimUnchanged


InitNpcs == IdleRT /\ InitLL

NextNpcs ==
    \/ \E r \in SimPlaces : RegisterRegion(r)
    \/ \E r \in SimPlaces : DiscoverRegion(r)
    \/ \E id \in NpcIds, loc \in SimPlaces : RegisterNpc(id, loc)
    \/ \E id \in NpcIds : KillNpc(id)
    \/ \E cfg \in SimulationConfigs : NewSimulator(cfg)
    \/ \E hour \in Hours : SimulateTickNpcs(hour, FALSE, 0, FALSE, FALSE, FALSE)

SpecNpcs == InitNpcs /\ [][NextNpcs]_vars

MaxRecent == 3

MemoryStores == {"mock", "test_mock"}
\* The limits a caller asks for.
Limits == 1..(MaxRecent + 1)

\* Python's lst[start:stop] on a list, indices counted from 0.
PyIndex(len, i) == IF i < 0 THEN Max2(len + i, 0) ELSE Min2(i, len)
PySlice(lst, start, stop) ==
    LET lo == PyIndex(Len(lst), start)
        hi == PyIndex(Len(lst), stop)
    IN IF lo < hi THEN SubSeq(lst, lo + 1, hi) ELSE <<>>

\* MockRedis.lrange of data/mock_redis.py: a list of no elements stands for
\* a key that is not there.
MockLrange(lst, start, stop) ==
    IF lst = <<>> THEN <<>>
    ELSE LET start1 == IF start < 0 THEN Len(lst) + start ELSE start
             stop1 == IF stop < 0 THEN Len(lst) + stop ELSE stop
         IN PySlice(lst, start1, stop1 + 1)

\* MockRedis._lrange of tests/mocks/redis_mock.py
TestMockLrange(lst, start, end) ==
    LET length == Len(lst)
        start1 == IF start < 0 THEN Max2(length + start, 0) ELSE start
        end1 == Min2(IF end < 0 THEN length + end ELSE end, length - 1)
    IN IF start1 > end1 THEN <<>> ELSE PySlice(lst, start1, end1 + 1)

LrangeOn(kind, lst, start, stop) ==
    IF kind = "mock" THEN MockLrange(lst, start, stop)
    ELSE TestMockLrange(lst, start, stop)

\* CognitionSystem.get_recent_history
GetRecentHistoryOn(kind, lst, limit) ==
    LET raw_msgs == LrangeOn(kind, lst, -limit, -1)
    IN [i \in 1..Len(raw_msgs) |-> Loads(raw_msgs[i])]

\* CognitionSystem.add_message, in a session of up to MaxRecent messages.
AddToWindow(m) ==
    /\ store_kind # NoneV
    /\ Len(cog_history) < MaxRecent
    /\ cog_history' = Append(cog_history, Dumps(m))
    /\ cog_last' = CogCall("add_message", NoneV, NoneV)
    /\ UNCHANGED <<store_kind, cog_state, cog_meta, blob>>
    /\ CogUnchanged

GetRecentHistory(limit) ==
    /\ store_kind # NoneV
    /\ cog_last' = CogCall("get_recent_history",
                           GetRecentHistoryOn(store_kind, cog_history, limit), limit)
    /\ UNCHANGED <<store_kind, cog_history, cog_state, cog_meta, blob>>
    /\ CogUnchanged

InitRecent == IdleRT /\ InitLL

NextRecent ==
    \/ \E kind \in MemoryStores : NewCognition(kind)
    \/ \E m \in Messages : AddToWindow(m)
    \/ \E limit \in Limits : GetRecentHistory(limit)

SpecRecent == InitRecent /\ [][NextRecent]_vars

\* The last min(n, len) messages of the history, decoded, in their order.
LastMessages(n) ==
    LET len == Len(cog_history)
        k == Min2(n, len)
    IN [i \in 1..k |-> Loads(cog_history[len - k + i])]

\* C31: get_recent_history(n) with n >= 1 has returned exactly the last
\* min(n, len) messages of the history in insertion order, on either
\* in-memory store.
C31_RecentIsLastN ==
    cog_last.op = "get_recent_history" =>
        cog_last.ret = LastMessages(cog_last.stop)

\* The store of data/mock_redis.py holds two messages and the call with
\* limit 3 has returned the last one alone.
C31_MockReturnsFewer ==
    /\ cog_last.op = "get_recent_history"
    /\ store_kind = "mock"
    /\ Len(cog_history) = 2
    /\ cog_last.stop = 3
    /\ cog_last.ret = <<Loads(cog_history[2])>>

\* On the store of tests/mocks/redis_mock.py the same call returns both
\* messages.
C31_TestMockReturnsAll ==
    (cog_last.op = "get_recent_history" /\ store_kind = "test_mock") =>
        cog_last.ret = LastMessages(cog_last.stop)

(***************************************************************************)
(* Event chains: events are emitted with links to earlier events, and      *)
(* get_related_events follows the links from one of them.  The i-th event  *)
(* emitted is known by the number i.                                       *)
(***************************************************************************)
MaxChain == 4
MaxDepth == 3
\* The lists of related_events an emit may carry when n events are stored:
\* ids of stored events, none twice.
RelatedLists(n) ==
    {<<>>} \cup {<<a>> : a \in 1..n}
           \cup {<<a, b>> : <<a, b>> \in {p \in (1..n) \X (1..n) : p[1] # p[2]}}

RelUnchanged ==
    UNCHANGED <<rtvars, llvars, wsvars, mapvars, evvars, pmvars, cogvars, clvars, simvars,
                riskvars, racevars>>

\* event_map.get(id): the stored event, if there is one.
InEventMap(ch, id) == id \in 1..Len(ch)

\* The loop over event.related_events of one expanded event:
\* st = [visited, queue, result].
RECURSIVE VisitRelated(_, _, _)
VisitRelated(ch, rels, st) ==
    IF rels = <<>> THEN st
    ELSE LET rel_id == Head(rels)
         IN IF rel_id \in st.visited THEN VisitRelated(ch, Tail(rels), st)
            ELSE VisitRelated(ch, Tail(rels),
                     [visited |-> st.visited \cup {rel_id},
                      queue |-> Append(st.queue, rel_id),
                      result |-> IF InEventMap(ch, rel_id)
                                 THEN Append(st.result, rel_id) ELSE st.result])

\* `for _ in range(depth)`: each round pops one event off the queue.
RECURSIVE Rounds(_, _, _)
Rounds(ch, rounds, st) ==
    IF rounds = 0 \/ st.queue = <<>> THEN st.result
    ELSE LET current == Head(st.queue)
             popped == [st EXCEPT !.queue = Tail(st.queue)]
         IN Rounds(ch, rounds - 1,
                   IF InEventMap(ch, current)
                   THEN VisitRelated(ch, ch[current], popped) ELSE popped)

\* EventSystem.get_related_events
GetRelatedEventsOn(ch, event_id, depth) ==
    Rounds(ch, depth, [visited |-> {event_id}, queue |-> <<event_id>>, result |-> <<>>])

\* EventSystem.emit with related_events that name stored events, in an
\* event system without listeners.
EmitLinked(related) ==
    /\ Len(chain) < MaxChain
    /\ \A i \in 1..Len(related) : related[i] <= Len(chain)
    /\ chain' = Append(chain, related)
    /\ rel_last' = [op |-> "emit", event_id |-> Len(chain) + 1, depth |-> 0,
                    result |-> <<>>]
    /\ RelUnchanged

GetRelatedEvents(event_id, depth) ==
    /\ event_id \in 1..Len(chain)
    /\ rel_last' = [op |-> "get_related_events", event_id |-> event_id, depth |-> depth,
                    result |-> GetRelatedEventsOn(chain, event_id, depth)]
    /\ UNCHANGED chain
    /\ RelUnchanged

InitChain == IdleRT /\ InitLL

NextChain ==
    \/ \E related \in RelatedLists(MaxChain) : EmitLinked(related)
    \/ \E event_id \in 1..MaxChain, depth \in 1..MaxDepth :
          GetRelatedEvents(event_id, depth)

SpecChain == InitChain /\ [][NextChain]_vars

\* The events an event links to, and the events at most d hops from the
\* event id along related_events.
Links(ch, e) == {ch[e][i] : i \in 1..Len(ch[e])}

RECURSIVE WithinHops(_, _, _)
WithinHops(ch, id, d) ==
    IF d = 0 THEN {id}
    ELSE LET near == WithinHops(ch, id, d - 1)
         IN near \cup UNION {Links(ch, e) : e \in near}

\* C32: get_related_events(event_id, depth) has returned every event
\* within depth hops of the start event (the start event apart), and none
\* that is farther away.
C32_RelatedWithinDepth ==
    rel_last.op = "get_related_events" =>
        Range(rel_last.result) =
            WithinHops(chain, rel_last.event_id, rel_last.depth) \ {rel_last.event_id}

\* Event 4 links to events 3 and 2, event 2 links to event 1: the call
\* with depth 2 from event 4 has returned 3 and 2 and has left out event 1,
\* two hops away.
C32_SecondHopLeftOut ==
    /\ rel_last.op = "get_related_events"
    /\ rel_last.event_id = 4
    /\ rel_last.depth = 2
    /\ chain = << <<>>, <<1>>, <<>>, <<3, 2>> >>
    /\ rel_last.result = <<3, 2>>

(***************************************************************************)
(* The saves of one session: archive_session called again and again, with  *)
(* messages, state updates and loads between the calls.  The log entry of  *)
(* an archive notes the playtime_minutes of the archive it replaces (0     *)
(* when there was none).                                                   *)
(***************************************************************************)
ArchivedPlaytime == IF blob.exists THEN blob.metadata.playtime ELSE 0

SaveSession == ArchiveNoting([playtime_before |-> ArchivedPlaytime, again |-> blob.exists])

InitSaves == IdleRT /\ InitLL

NextSaves ==
    \/ \E kind \in {"redis", "mock"} : NewCognition(kind)
    \/ \E m \in Messages : CogAddMessage(m)
    \/ WriteDefaultState
    \/ SaveSession
    \/ LoadSession("none")

SpecSaves == InitSaves /\ [][NextSaves]_vars

\* C33: every archive_session leaves playtime_minutes one above what the
\* archive before it held.
C33_PlaytimeOneMorePerSave ==
    cog_last.op = "archive" =>
        blob.metadata.playtime = cog_last.stop.playtime_before + 1

\* A second archive of the session has left playtime_minutes at 1, where
\* the first archive had put it.
C33_SecondSaveSamePlaytime ==
    /\ cog_last.op = "archive"
    /\ cog_last.stop.again
    /\ cog_last.stop.playtime_before = 1
    /\ blob.metadata.playtime = 1

(***************************************************************************)
(* The risk of dynamic sub-locations: create_dynamic_sub_location as one   *)
(* call, on a store that takes every write or refuses the node, with what  *)
(* the LLM's JSON gave as risk_level.                                      *)
(***************************************************************************)
MaxSubs == 2

\* What the reply holds under "risk_level": an integer, a string of digits,
\* a number with a fraction (n counts tenths), a word, null, or no such key.
\* A reply no JSON is read from has t = "unparsable".
RiskReplies ==
    [t : {"int"}, n : {-2, 0, 3, 5, 7}]
        \cup {[t |-> "digits", n |-> 9], [t |-> "float", n |-> 29],
              [t |-> "word", n |-> 0], [t |-> "null", n |-> 0],
              [t |-> "absent", n |-> 0], [t |-> "unparsable", n |-> 0]}

\* risk_level = int(node_info.get("risk_level", 1)), 1 when int() raises
\* TypeError or ValueError.
RiskLevel(reply) ==
    IF reply.t \in {"int", "digits"} THEN reply.n
    ELSE IF reply.t = "float" THEN reply.n \div 10
    ELSE 1

RiskUnchanged ==
    UNCHANGED <<sessvars, llvars, wsvars, mapvars, evvars, pmvars, cogvars, clvars,
                simvars, relvars, racevars>>

\* MapTopologyEngine.create_dynamic_sub_location: the node and the two
\* edges are written, unless the call declines or save_node fails.
CreateDynamicSubLocation(parent, reply, saved) ==
    LET declined == parent \notin nodes \/ ~has_llm \/ reply.t = "unparsable"
        fresh == {d \in DynIds : d \notin nodes /\ Cardinality(node_risk) < MaxSubs}
    IN /\ declined \/ fresh # {}
       /\ \E d \in (IF declined THEN {NoneV} ELSE fresh) :
            LET written == ~declined /\ saved
            IN /\ nodes' = IF written THEN nodes \cup {d} ELSE nodes
               /\ node_risk' = IF written THEN node_risk \cup {<<d, RiskLevel(reply)>>}
                               ELSE node_risk
               /\ edges' = IF written
                           THEN [edges EXCEPT ![<<parent, d>>] = "dyn_path",
                                              ![<<d, parent>>] = "dyn_path"]
                           ELSE edges
               /\ risk_last' = [op |-> "create", reply |-> reply,
                                ret |-> IF written THEN d ELSE NoneV]
       /\ RiskUnchanged

InitSubs ==
    /\ InitRT
    /\ InitLL
    /\ has_llm
    /\ enabled = <<>>

NextSubs ==
    \E parent \in {"tavern", "forest", "dyn1", "dyn2"}, reply \in RiskReplies,
       saved \in BOOLEAN :
        CreateDynamicSubLocation(parent, reply, saved)

SpecSubs == InitSubs /\ [][NextSubs]_vars

\* C34: every dynamic node that is stored has a risk_level from 1 to 5.
C34_RiskWithinOneToFive ==
    \A p \in node_risk : 1 <= p[2] /\ p[2] <= 5

\* The reply said "risk_level": 7 and the node was stored with 7.
C34_RiskSevenStored ==
    /\ risk_last.op = "create"
    /\ risk_last.reply = [t |-> "int", n |-> 7]
    /\ risk_last.ret # NoneV
    /\ <<risk_last.ret, 7>> \in node_risk

(***************************************************************************)
(* World events of the simulator on their own: simulate_world_events has   *)
(* generated an event and applies it, in a world whose event system does   *)
(* or does not carry the runtime's forwarding listener.                    *)
(***************************************************************************)
\* WorldSimulator.simulate_world_events, an event with crisis_change d
\* having been generated: _apply_world_event sets the level and emits
\* WORLD_EVENT, which the forwarding listener hands to handle_event.
SimulateWorldEvents(d, synced) ==
    /\ WsCall("simulate_world_events", "world_event",
              IF synced THEN "forwarded" ELSE "alone", d, NoneV, quests,
              ApplyWorldEventOn(crisis_level, d, synced))
    /\ UNCHANGED ws_store

InitSync == IdleRT /\ InitLL

NextSync ==
    \/ \E q \in QuestIds : RegisterQuest(q)
    \/ \E q \in EventQuestIds : AcceptQuest(q)
    \/ \E level \in CrisisLevel.CALM..CrisisLevel.EMERGENCY : SetCrisisLevel(level)
    \/ \E d \in CrisisChanges : HandleWorldEvent(d)
    \/ \E d \in TemplateChanges, synced \in BOOLEAN : SimulateWorldEvents(d, synced)

SpecSync == InitSync /\ [][NextSync]_vars

\* C35: with the forwarding listener on the event system the simulator
\* emits into, a generated world event with crisis_change c has moved the
\* crisis level from L to clamp(L + c).
C35_AppliedOnce ==
    (ws_last.op = "simulate_world_events" /\ ws_last.arg = "forwarded") =>
        crisis_level = Saturate(ws_last.crisis_before + ws_last.change)

\* A world event with crisis_change 1 in a CALM world, the listener
\* installed: the level stands at MEDIUM, two steps up.
C35_AppliedTwice ==
    /\ ws_last.op = "simulate_world_events"
    /\ ws_last.arg = "forwarded"
    /\ ws_last.change = 1
    /\ ws_last.crisis_before = CrisisLevel.CALM
    /\ crisis_level = CrisisLevel.CALM + 2

(***************************************************************************)
(* The enabled list of a plugin manager against the lifecycle states.      *)
(***************************************************************************)
\* C36: in every plugin manager the enabled list holds no name twice, and
\* a registered plugin is in the list if and only if it is LOADED.
C36_EnabledIffLoaded ==
    \A k \in 1..Len(managers) :
        LET mgr == managers[k]
        IN /\ \A i, j \in 1..Len(mgr.enabled) :
                  mgr.enabled[i] = mgr.enabled[j] => i = j
           /\ \A p \in Plugins :
                  (p \in Range(mgr.enabled)) <=> (mgr.plugins[p] = "loaded")

\* on_unload raised and left the plugin enabled; the load that followed
\* appended its name again: the name stands twice in the enabled list.
C36_NameEnabledTwice ==
    /\ pm_last.op = "load"
    /\ pm_last.before = "unloading"
    /\ pm_last.ret = "True"
    /\ pm_last.enabled_before = <<pm_last.name>>
    /\ LastManager.enabled = <<pm_last.name, pm_last.name>>
    /\ LastManager.plugins[pm_last.name] = "loaded"

(***************************************************************************)
(* Two callers inside get_cached_or_generate of one LazyLoadingStrategy at *)
(* the same time.  A caller takes the read-through in three steps: the     *)
(* decision with the can_call check, the generator call, and record_call   *)
(* with the cache write; the steps of the two callers interleave freely.   *)
(* lazy_loader.py takes no lock anywhere.                                  *)
(***************************************************************************)
\* The read-throughs one caller makes in a run.
MaxRaceCalls == 2
\* max_calls_per_minute of the limiter the callers share.
RaceMaxCalls == 1

RaceConfig == [DefaultConfig EXCEPT !.max_calls_per_minute = RaceMaxCalls]
RaceKeys == {KeyPool[1], KeyPool[2]}
\* How far the clock moves between two steps: the minimum interval.
RaceGaps == {100}
\* The clock of a run stays inside one rate window.
RaceEnd == 300

RaceUnchanged ==
    UNCHANGED <<rtvars, wsvars, mapvars, evvars, pmvars, cogvars, clvars, simvars,
                relvars, riskvars>>

\* time.time() moves on.
RaceTick(d) ==
    /\ now + d <= RaceEnd
    /\ now' = now + d
    /\ UNCHANGED <<config, cache, call_times, stats, ctx, reqs, callers, gen_at>>
    /\ RaceUnchanged

\* get_cached_or_generate down to the can_call check: the caller is
\* refused or served from the cache and returns, or goes on to generate.
RaceCheck(c, k) ==
    LET d == ShouldGenerateContent(cache, stats, k, ComputeHash(ctx), now, config, FALSE)
        admitted == d.generate /\ CanCall(call_times, now, config)
    IN /\ callers[c].pc = "outside"
       /\ callers[c].calls < MaxRaceCalls
       /\ stats' = IF d.generate /\ ~admitted THEN Bump(d.stats, "calls_blocked")
                   ELSE d.stats
       /\ cache' = IF admitted THEN d.cache ELSE CacheGet(d.cache, k, now)
       /\ call_times' = IF d.generate THEN Prune(call_times, now) ELSE call_times
       /\ callers' = [callers EXCEPT ![c] =
                         IF admitted THEN [pc |-> "admitted", key |-> k, calls |-> @.calls]
                         ELSE [pc |-> "outside", key |-> NoneV, calls |-> @.calls + 1]]
       /\ UNCHANGED <<now, config, ctx, reqs, gen_at>>
       /\ RaceUnchanged

\* content = generator()
RaceGenerate(c) ==
    /\ callers[c].pc = "admitted"
    /\ gen_at' = Append(gen_at, now)
    /\ callers' = [callers EXCEPT ![c].pc = "generated"]
    /\ UNCHANGED llvars
    /\ RaceUnchanged

\* rate_limiter.record_call() and cache.set(...), then the return.
RaceRecord(c) ==
    /\ callers[c].pc = "generated"
    /\ call_times' = RecordCall(call_times, now)
    /\ cache' = CacheSet(cache, callers[c].key, ContentPool[Len(call_times) + 1],
                         "narrative",
                         IF config.context_aware_caching THEN ComputeHash(ctx)
                         ELSE EmptyHash,
                         0, now, config)
    /\ callers' = [callers EXCEPT ![c] =
                      [pc |-> "outside", key |-> NoneV, calls |-> @.calls + 1]]
    /\ UNCHANGED <<now, config, stats, ctx, reqs, gen_at>>
    /\ RaceUnchanged

InitRacing == IdleRT /\ InitLoader(RaceConfig)

NextRacing ==
    \/ \E d \in RaceGaps : RaceTick(d)
    \/ \E c \in Callers, k \in RaceKeys : RaceCheck(c, k)
    \/ \E c \in Callers : RaceGenerate(c)
    \/ \E c \in Callers : RaceRecord(c)

SpecRacing == InitRacing /\ [][NextRacing]_vars

\* The generator invocations of the 60 seconds that end with invocation i.
InWindow(i) ==
    {j \in 1..Len(gen_at) :
        gen_at[i] - WindowSeconds * MsPerSecond < gen_at[j] /\ gen_at[j] <= gen_at[i]}

\* C37: however the steps of the two callers interleave, no window of 60
\* seconds holds more generator invocations than max_calls_per_minute.
C37_WindowHoldsUnderRace ==
    \A i \in 1..Len(gen_at) : Cardinality(InWindow(i)) <= config.max_calls_per_minute

\* Both callers passed can_call before either recorded its call: two
\* generator invocations at one instant under a limit of one a minute.
C37_BothAdmitted ==
    /\ config.max_calls_per_minute = 1
    /\ Len(gen_at) = 2
    /\ gen_at[1] = gen_at[2]
    /\ callers["a"].pc = "generated"
    /\ callers["b"].pc = "generated"
====
